---- MODULE Spec2Model ----
(***************************************************************************)
(* Model of vixely-core's media header probe: the MP4 box walker and       *)
(* extractor (video/mp4.rs), the Matroska element walker and extractor     *)
(* (video/matroska.rs), the primitive readers (common.rs) and the          *)
(* dispatcher (video/mod.rs).                                              *)
(*                                                                         *)
(* The buffer is a sequence of bytes; offsets are 0-based as in the code,  *)
(* so byte i of the buffer is data[i + 1].  Every loop iteration of every  *)
(* traversal function is one action; a call pushes a frame, a return pops  *)
(* it.  Integers wider than the checker's are kept as byte strings and     *)
(* valued with saturation at Cap, which is above every buffer length, so   *)
(* every comparison against an offset or a small constant is exact.        *)
(***************************************************************************)
EXTENDS Integers, Sequences, FiniteSets, TLC

VARIABLES data, build, inp, pc, stack, steps, log,
          has_ftyp, format, duration, tracks, track, timescale,
          mformat, duration_ticks, timecode_scale, mtracks, mtrack,
          mp4res, mkvres, out,
          raw, decoded

vars == <<data, build, inp, pc, stack, steps, log,
          has_ftyp, format, duration, tracks, track, timescale,
          mformat, duration_ticks, timecode_scale, mtracks, mtrack,
          mp4res, mkvres, out,
          raw, decoded>>

(***************************************************************************)
(* Option values: None is the empty set, Some(v) the singleton.            *)
(***************************************************************************)
None == {}
Some(v) == {v}
IsSome(o) == o # {}
Unwrap(o) == CHOOSE x \in o : TRUE

Min(a, b) == IF a < b THEN a ELSE b

\* Saturation point of integer values: larger than any buffer length.
Cap == 2^30

RECURSIVE ValAcc(_, _, _)
ValAcc(bytes, i, acc) ==
    IF i > Len(bytes) THEN acc
    ELSE ValAcc(bytes, i + 1,
                IF acc >= 2^22 THEN Cap ELSE acc * 256 + bytes[i])

\* Big-endian value of a byte string, saturated at Cap.
Val(bytes) == ValAcc(bytes, 1, 0)

AllZero(bytes) == \A i \in 1..Len(bytes) : bytes[i] = 0

\* data[from..to) with 0-based offsets.
Slice(d, from, to) == [i \in 1..(to - from) |-> d[from + i]]

(***************************************************************************)
(* common.rs.  A payload is the slice data[ps..pe); reads are relative to  *)
(* ps and bounded by pe, as data.get(offset..offset + n) is.               *)
(***************************************************************************)
read_bytes(d, ps, pe, off, n) ==
    IF ps + off + n <= pe THEN Some(Slice(d, ps + off, ps + off + n)) ELSE None

read_u16_be(d, ps, pe, off) == read_bytes(d, ps, pe, off, 2)
read_u32_be(d, ps, pe, off) == read_bytes(d, ps, pe, off, 4)
read_u64_be(d, ps, pe, off) == read_bytes(d, ps, pe, off, 8)

\* read_uint_be: 1..8 bytes, else absent.  The value stays a byte string.
read_uint_be(d, ps, pe) ==
    IF pe - ps = 0 \/ pe - ps > 8 THEN None ELSE Some(Slice(d, ps, pe))


(***************************************************************************)
(* read_float_be.  A float is kept as its class, sign, unbiased exponent   *)
(* field and bit pattern; "sub" is a subnormal, whose true exponent is at  *)
(* most e.  An f32 widened to f64 keeps class, sign and value.             *)
(***************************************************************************)
FloatClass(ex, exMax, mantZero) ==
    IF ex = exMax THEN (IF mantZero THEN "inf" ELSE "nan")
    ELSE IF ex = 0 THEN (IF mantZero THEN "zero" ELSE "sub")
    ELSE "fin"

F32(b) ==
    LET ex == (b[1] % 128) * 2 + (b[2] \div 128)
        mz == (b[2] % 128 = 0) /\ b[3] = 0 /\ b[4] = 0
    IN  [cls |-> FloatClass(ex, 255, mz), neg |-> b[1] >= 128,
         e |-> ex - 127, bits |-> b]

F64(b) ==
    LET ex == (b[1] % 128) * 16 + (b[2] \div 16)
        mz == (b[2] % 16 = 0) /\ AllZero(SubSeq(b, 3, 8))
    IN  [cls |-> FloatClass(ex, 2047, mz), neg |-> b[1] >= 128,
         e |-> ex - 1023, bits |-> b]

read_float_be(d, ps, pe) ==
    IF pe - ps = 4 THEN Some(F32(Slice(d, ps, pe)))
    ELSE IF pe - ps = 8 THEN Some(F64(Slice(d, ps, pe)))
    ELSE None

(***************************************************************************)
(* Text.  A string is the sequence of its character codes.  from_utf8_lossy*)
(* keeps ASCII bytes and turns a byte that cannot stand in UTF-8 into      *)
(* U+FFFD; the inputs use ASCII and 0xFF only, for which this is exact.    *)
(***************************************************************************)
Lossy(bytes) == [i \in 1..Len(bytes) |-> IF bytes[i] < 128 THEN bytes[i] ELSE 65533]

to_ascii_lowercase(s) ==
    [i \in 1..Len(s) |-> IF s[i] >= 65 /\ s[i] <= 90 THEN s[i] + 32 ELSE s[i]]

\* ASCII members of Unicode White_Space, which str::trim removes.
Spaces == {9, 10, 11, 12, 13, 32}

RECURSIVE TrimLeft(_, _)
TrimLeft(s, S) ==
    IF s # <<>> /\ Head(s) \in S THEN TrimLeft(Tail(s), S) ELSE s

RECURSIVE TrimRight(_, _)
TrimRight(s, S) ==
    IF s # <<>> /\ s[Len(s)] \in S THEN TrimRight(SubSeq(s, 1, Len(s) - 1), S) ELSE s

\* str::trim
trim(s) == TrimRight(TrimLeft(s, Spaces), Spaces)

\* str::trim_matches('\0')
trim_nul(s) == TrimRight(TrimLeft(s, {0}), {0})

read_utf8(bytes) == trim(trim_nul(Lossy(bytes)))

\* str::contains
Contains(s, sub) ==
    \E i \in 0..(Len(s) - Len(sub)) : SubSeq(s, i + 1, i + Len(sub)) = sub

(***************************************************************************)
(* Four-character tags and names, as character codes.                      *)
(***************************************************************************)
T_ftyp == <<102, 116, 121, 112>>
T_moov == <<109, 111, 111, 118>>
T_mvhd == <<109, 118, 104, 100>>
T_trak == <<116, 114, 97, 107>>
T_tkhd == <<116, 107, 104, 100>>
T_mdia == <<109, 100, 105, 97>>
T_hdlr == <<104, 100, 108, 114>>
T_mdhd == <<109, 100, 104, 100>>
T_minf == <<109, 105, 110, 102>>
T_stbl == <<115, 116, 98, 108>>
T_stsd == <<115, 116, 115, 100>>
T_stts == <<115, 116, 116, 115>>
T_vide == <<118, 105, 100, 101>>
T_soun == <<115, 111, 117, 110>>
T_text == <<116, 101, 120, 116>>
T_sbtl == <<115, 98, 116, 108>>
T_subt == <<115, 117, 98, 116>>
T_clcp == <<99, 108, 99, 112>>
S_mp4 == <<109, 112, 52>>
S_mov == <<109, 111, 118>>
S_qt == <<113, 116, 32, 32>>
S_matroska == <<109, 97, 116, 114, 111, 115, 107, 97>>
S_unknown == <<117, 110, 107, 110, 111, 119, 110>>


(***************************************************************************)
(* mp4.rs: the box walker.                                                 *)
(***************************************************************************)
\* `size as usize` of a u64 given as 8 bytes: the low 32 bits on a 32-bit
\* target (wasm32), all of it on a 64-bit one.
AsUsize(bytes8, bits) ==
    IF bits = 32 THEN Val(SubSeq(bytes8, 5, 8)) ELSE Val(bytes8)

\* The box at offset below limit: [typ, ps, pe, next], or None.
\* offset.checked_add(n) overflows, or exceeds limit, for every n >= Cap.
next_mp4_box(d, offset, limit, bits) ==
    IF offset + 8 > limit \/ offset + 8 > Len(d) THEN None
    ELSE
      LET size32 == Val(Slice(d, offset, offset + 4))
          typ    == Slice(d, offset + 4, offset + 8)
          ext    == size32 = 1
      IN  IF ext /\ (offset + 16 > limit \/ offset + 16 > Len(d)) THEN None
          ELSE
            LET ext8   == Slice(d, offset + 8, offset + 16)
                size   == IF ext THEN Val(ext8)
                          ELSE IF size32 = 0 THEN limit - offset
                          ELSE size32
                header == IF ext THEN 16 ELSE 8
                usz    == IF ext THEN AsUsize(ext8, bits) ELSE size
                end    == offset + usz
            IN  IF size < header THEN None
                ELSE IF usz >= Cap THEN None
                ELSE IF end > limit \/ end > Len(d) THEN None
                ELSE Some([typ |-> typ, ps |-> offset + header,
                           pe |-> end, next |-> end])

(***************************************************************************)
(* mp4.rs: the leaf boxes.  A quotient of two unsigned integers (seconds,  *)
(* frames per second) is kept as the pair <<numerator, denominator>>.      *)
(***************************************************************************)
Mp4TrackDefault ==
    [kind |-> None, codec |-> None, width |-> None, height |-> None,
     fps |-> None, sample_rate |-> None, channels |-> None,
     language |-> None, duration |-> None]

\* Option::map over a read.
MapOpt(o, F(_)) == IF IsSome(o) THEN Some(F(Unwrap(o))) ELSE None

\* v >> 16 of a 32-bit value given as 4 bytes.
Shr16(b) == b[1] * 256 + b[2]

parse_mvhd(d, ps, pe) ==
    IF pe - ps < 24 THEN None
    ELSE IF d[ps + 1] = 1 THEN
      IF pe - ps < 32 THEN None
      ELSE LET timescale_ == read_u32_be(d, ps, pe, 20)
               dur == read_u64_be(d, ps, pe, 24)
           IN  IF ~IsSome(timescale_) \/ ~IsSome(dur) THEN None
               ELSE IF Val(Unwrap(timescale_)) = 0 THEN None
               ELSE Some(<<Val(Unwrap(dur)), Val(Unwrap(timescale_))>>)
    ELSE LET timescale_ == read_u32_be(d, ps, pe, 12)
             dur == read_u32_be(d, ps, pe, 16)
         IN  IF ~IsSome(timescale_) \/ ~IsSome(dur) THEN None
             ELSE IF Val(Unwrap(timescale_)) = 0 THEN None
             ELSE Some(<<Val(Unwrap(dur)), Val(Unwrap(timescale_))>>)

parse_tkhd(d, ps, pe, t) ==
    IF pe - ps < 84 THEN t
    ELSE
      LET version == d[ps + 1]
          width_off == IF version = 1 THEN 88 ELSE 76
          height_off == IF version = 1 THEN 92 ELSE 80
          width == MapOpt(read_u32_be(d, ps, pe, width_off), Shr16)
          height == MapOpt(read_u32_be(d, ps, pe, height_off), Shr16)
      IN  [t EXCEPT !.width = IF t.width = None THEN width ELSE @,
                    !.height = IF t.height = None THEN height ELSE @]

\* The handler tag's kind, None for any other tag.
HandlerKind(handler) ==
    IF handler = T_vide THEN Some("video")
    ELSE IF handler = T_soun THEN Some("audio")
    ELSE IF handler \in {T_text, T_sbtl, T_subt, T_clcp} THEN Some("subtitle")
    ELSE None

parse_hdlr(d, ps, pe, t) ==
    IF pe - ps < 12 THEN t
    ELSE LET kind == HandlerKind(Slice(d, ps + 8, ps + 12))
         IN  IF IsSome(kind) THEN [t EXCEPT !.kind = kind] ELSE t

\* decode_mp4_language with a mask of six bits on the first field.
decode_mp4_language_WideMask(b) ==
    LET r == b[1] * 256 + b[2]
        a == Min(((r \div 1024) % 64) + 96, 255)
        b_ == Min(((r \div 32) % 32) + 96, 255)
        c == Min((r % 32) + 96, 255)
        lower(x) == x >= 97 /\ x <= 122
    IN  IF r = 0 THEN None
        ELSE IF ~(lower(a) /\ lower(b_) /\ lower(c)) THEN None
        ELSE Some(<<a, b_, c>>)

\* The u8 additions saturate at 255.
decode_mp4_language(b) ==
    LET r == b[1] * 256 + b[2]
        a == Min(((r \div 1024) % 32) + 96, 255)
        b_ == Min(((r \div 32) % 32) + 96, 255)
        c == Min((r % 32) + 96, 255)
        lower(x) == x >= 97 /\ x <= 122
    IN  IF r = 0 THEN None
        ELSE IF ~(lower(a) /\ lower(b_) /\ lower(c)) THEN None
        ELSE Some(<<a, b_, c>>)

\* and_then(decode_mp4_language)
LangOf(o) == IF IsSome(o) THEN decode_mp4_language(Unwrap(o)) ELSE None

\* [ts, t]: the mdia-local timescale and the track after mdhd.
parse_mdhd(d, ps, pe, ts, t) ==
    LET keep == [ts |-> ts, t |-> t]
        v1 == d[ps + 1] = 1
        tsr == read_u32_be(d, ps, pe, IF v1 THEN 20 ELSE 12)
        dur == IF v1 THEN read_u64_be(d, ps, pe, 24) ELSE read_u32_be(d, ps, pe, 16)
        lang == read_u16_be(d, ps, pe, IF v1 THEN 32 ELSE 20)
    IN  IF pe - ps < 24 THEN keep
        ELSE IF v1 /\ pe - ps < 36 THEN keep
        ELSE IF ~IsSome(tsr) \/ ~IsSome(dur) THEN keep
        ELSE [ts |-> Some(Val(Unwrap(tsr))),
              t |-> [t EXCEPT
                       !.duration = IF Val(Unwrap(tsr)) > 0
                                    THEN Some(<<Val(Unwrap(dur)), Val(Unwrap(tsr))>>)
                                    ELSE @,
                       !.language = LangOf(lang)]]

\* The first sample entry's size field (payload offset 8) is within 8 of
\* 2^32, so that `offset + size` exceeds a 32-bit usize.
StsdSizeWraps(d, ps, pe, bits) ==
    /\ bits = 32
    /\ pe - ps >= 16
    /\ Val(Slice(d, ps + 4, ps + 8)) # 0
    /\ d[ps + 9] = 255 /\ d[ps + 10] = 255 /\ d[ps + 11] = 255 /\ d[ps + 12] >= 248

U16(b) == b[1] * 256 + b[2]

parse_stsd(d, ps, pe, t, bits) ==
    IF pe - ps < 16 THEN t
    ELSE
      LET entry_count == Val(Slice(d, ps + 4, ps + 8))
          offset == 8
          size == Val(Slice(d, ps + 8, ps + 12))
          \* offset + size, wrapped modulo 2^32 on a 32-bit target
          sum == IF StsdSizeWraps(d, ps, pe, bits)
                 THEN d[ps + 12] - 248 ELSE offset + size
          codec == to_ascii_lowercase(Lossy(Slice(d, ps + offset + 4, ps + offset + 8)))
          t1 == [t EXCEPT !.codec = Some(trim(codec))]
      IN  IF entry_count = 0 THEN t
          ELSE IF offset + 8 > pe - ps THEN t
          ELSE IF size < 8 \/ sum > pe - ps THEN t
          ELSE IF t.kind = Some("video") /\ size >= 36 THEN
            [t1 EXCEPT !.width = MapOpt(read_u16_be(d, ps, pe, offset + 32), U16),
                       !.height = MapOpt(read_u16_be(d, ps, pe, offset + 34), U16)]
          ELSE IF t.kind = Some("audio") /\ size >= 36 THEN
            [t1 EXCEPT !.channels = MapOpt(read_u16_be(d, ps, pe, offset + 24), U16),
                       !.sample_rate = MapOpt(read_u32_be(d, ps, pe, offset + 32), Shr16)]
          ELSE t1

parse_stts(d, ps, pe, ts, t) ==
    IF t.kind # Some("video") THEN t
    ELSE IF ~(IsSome(ts) /\ Unwrap(ts) > 0) THEN t
    ELSE IF pe - ps < 16 THEN t
    ELSE
      LET entry_count == Val(Slice(d, ps + 4, ps + 8))
          sample_duration == Val(Slice(d, ps + 12, ps + 16))
      IN  IF entry_count = 0 THEN t
          ELSE IF sample_duration = 0 THEN t
          ELSE [t EXCEPT !.fps = Some(<<Unwrap(ts), sample_duration>>)]


(***************************************************************************)
(* mp4.rs: parse_mp4 after the walk (lines 51-94).                         *)
(***************************************************************************)
\* a > b for quotients <<n, d>> with d > 0, by continued-fraction descent
\* (no product is formed).
RECURSIVE FracGT(_, _)
FracGT(a, b) ==
    LET q1 == a[1] \div a[2]
        q2 == b[1] \div b[2]
        r1 == a[1] % a[2]
        r2 == b[1] % b[2]
    IN  IF q1 # q2 THEN q1 > q2
        ELSE IF r1 = 0 THEN FALSE
        ELSE IF r2 = 0 THEN TRUE
        ELSE FracGT(<<b[2], r2>>, <<a[2], r1>>)

FracZero == <<0, 1>>

\* tracks.iter().filter_map(|t| t.duration).fold(0.0, max)
RECURSIVE MaxTrackDuration(_, _, _)
MaxTrackDuration(ts, i, acc) ==
    IF i > Len(ts) THEN acc
    ELSE MaxTrackDuration(ts, i + 1,
            IF IsSome(ts[i].duration) /\ FracGT(Unwrap(ts[i].duration), acc)
            THEN Unwrap(ts[i].duration) ELSE acc)

\* Mp4TopDuration without the fallback to the tracks.
Mp4TopDuration_NoFallback(dur, ts) == dur

Mp4TopDuration(dur, ts) ==
    IF dur[1] = 0 THEN MaxTrackDuration(ts, 1, FracZero) ELSE dur

Mp4Stream(index, t) ==
    [index |-> index, kind |-> Unwrap(t.kind),
     codec |-> IF IsSome(t.codec) THEN Unwrap(t.codec) ELSE S_unknown,
     width |-> t.width, height |-> t.height, fps |-> t.fps,
     sample_rate |-> t.sample_rate, channels |-> t.channels,
     language |-> t.language, bitrate |-> None,
     is_default |-> None, is_forced |-> None]

\* tracks.into_iter().enumerate().filter_map(..).collect()
RECURSIVE Mp4Streams(_, _)
Mp4Streams(ts, i) ==
    IF i > Len(ts) THEN <<>>
    ELSE IF IsSome(ts[i].kind) THEN <<Mp4Stream(i - 1, ts[i])>> \o Mp4Streams(ts, i + 1)
    ELSE Mp4Streams(ts, i + 1)

\* A duration in seconds as the dispatcher sees it: class, sign and the
\* quantity it was computed from.
QuotDuration(q) ==
    [cls |-> IF q[1] = 0 THEN "zero" ELSE "fin", neg |-> FALSE, of |-> q]

\* Mp4Result without the check for an empty stream list.
Mp4Result_KeepsEmpty(hasFtyp, fmt, dur, ts) ==
    IF ~hasFtyp THEN None
    ELSE Some([duration |-> QuotDuration(Mp4TopDuration(dur, ts)),
               bitrate |-> 0, format |-> fmt,
               streams |-> Mp4Streams(ts, 1), font_attachments |-> <<>>])

Mp4Result(hasFtyp, fmt, dur, ts) ==
    IF ~hasFtyp THEN None
    ELSE IF Mp4Streams(ts, 1) = <<>> THEN None
    ELSE Some([duration |-> QuotDuration(Mp4TopDuration(dur, ts)),
               bitrate |-> 0, format |-> fmt,
               streams |-> Mp4Streams(ts, 1), font_attachments |-> <<>>])

\* FtypFormat without the special case of the QuickTime brand.
FtypFormat_NoMov(d, ps, pe, cur) ==
    IF pe >= ps + 4 THEN trim(to_ascii_lowercase(Lossy(Slice(d, ps, ps + 4))))
    ELSE cur

\* The format an ftyp box gives (lines 32-40), cur when its payload is short.
FtypFormat(d, ps, pe, cur) ==
    IF pe >= ps + 4 THEN
      LET major_str == to_ascii_lowercase(Lossy(Slice(d, ps, ps + 4)))
      IN  IF major_str = S_qt THEN S_mov ELSE trim(major_str)
    ELSE cur

(***************************************************************************)
(* The traversal machine.  A frame is one running traversal function: its  *)
(* loop offset, its end bound and whether its loop has exited.  lim is the *)
(* length of the slice the function reads from.                            *)
(***************************************************************************)
\* Bound on loop iterations of one probe, above what any input needs.
MaxSteps == 400

Top == stack[Len(stack)]
SetTop(f) == [stack EXCEPT ![Len(stack)] = f]
Frame(fn, start, end, lim) ==
    [fn |-> fn, offset |-> start, end |-> end, lim |-> lim,
     done |-> FALSE, id |-> steps + 1]

\* `&data[ps..pe]` panics unless ps <= pe <= data.len().
SliceOk(ps, pe) == ps <= pe /\ pe <= Len(data)

\* The loop tail `if next <= offset { break; } offset = next;`.
Mp4Advance(f, next) ==
    IF next <= f.offset THEN [f EXCEPT !.done = TRUE] ELSE [f EXCEPT !.offset = next]

Scanned(f, ps, pe, id, unknown) ==
    [frame |-> f.id, fn |-> f.fn, off |-> f.offset, end |-> f.end,
     ps |-> ps, pe |-> pe, id |-> id, unknown |-> unknown]

Mp4Vars == <<has_ftyp, format, duration, tracks, track, timescale>>
MkvVars == <<mformat, duration_ticks, timecode_scale, mtracks, mtrack>>
ResVars == <<mp4res, mkvres, out>>
\* The argument and the result of a call of decode_mp4_language on its own.
LangVars == <<raw, decoded>>

Mp4Running(fn) ==
    /\ pc = "mp4"
    /\ stack # <<>>
    /\ Top.fn = fn
    /\ ~Top.done
    /\ steps < MaxSteps

\* The walker reports no box: the `while let` loop exits.
Mp4LoopExit ==
    /\ stack' = SetTop([Top EXCEPT !.done = TRUE])
    /\ steps' = steps + 1
    /\ UNCHANGED <<data, build, inp, pc, log, Mp4Vars, MkvVars, ResVars>>

\* A box that the function does not know, or that changes nothing.
Mp4Skip(b) ==
    /\ stack' = SetTop(Mp4Advance(Top, b.next))
    /\ steps' = steps + 1
    /\ log' = Append(log, Scanned(Top, b.ps, b.pe, b.typ, FALSE))
    /\ UNCHANGED <<data, build, inp, pc, Mp4Vars, MkvVars, ResVars>>

\* A container box: the traversal function fn runs over its payload.
Mp4Call(b, fn) ==
    /\ stack' = Append(SetTop(Mp4Advance(Top, b.next)), Frame(fn, b.ps, b.pe, Len(data)))
    /\ steps' = steps + 1
    /\ log' = Append(log, Scanned(Top, b.ps, b.pe, b.typ, FALSE))
    /\ UNCHANGED <<data, build, inp, pc, MkvVars, ResVars>>

\* A leaf box whose payload is sliced: a panic when the range is not one.
Mp4Leaf(b) ==
    /\ steps' = steps + 1
    /\ log' = Append(log, Scanned(Top, b.ps, b.pe, b.typ, FALSE))
    /\ IF SliceOk(b.ps, b.pe)
       THEN /\ stack' = SetTop(Mp4Advance(Top, b.next))
            /\ pc' = pc
       ELSE /\ stack' = stack
            /\ pc' = "panic"
    /\ UNCHANGED <<data, build, inp, MkvVars, ResVars>>

\* parse_mp4, lines 17-26: the length gate and the locals.
ParseMp4Start ==
    /\ pc = "start"
    /\ steps' = steps + 1
    /\ IF Len(data) < 12
       THEN /\ mp4res' = None
            /\ pc' = "mkv_start"
            /\ stack' = stack
       ELSE /\ mp4res' = mp4res
            /\ pc' = "mp4"
            /\ stack' = <<Frame("parse_mp4", 0, Len(data), Len(data))>>
    /\ UNCHANGED <<data, build, inp, log, Mp4Vars, MkvVars, mkvres, out>>
    /\ UNCHANGED LangVars

\* parse_mp4, lines 27-49: one iteration of the top-level loop.
ParseMp4 ==
    /\ Mp4Running("parse_mp4")
    /\ LET nb == next_mp4_box(data, Top.offset, Len(data), build.bits)
           b == Unwrap(nb)
       IN  IF nb = None THEN Mp4LoopExit
           ELSE IF b.typ = T_ftyp THEN
             /\ has_ftyp' = TRUE
             /\ format' = FtypFormat(data, b.ps, b.pe, format)
             /\ stack' = SetTop(Mp4Advance(Top, b.next))
             /\ steps' = steps + 1
             /\ log' = Append(log, Scanned(Top, b.ps, b.pe, b.typ, FALSE))
             /\ UNCHANGED <<data, build, inp, pc, duration, tracks, track,
                            timescale, MkvVars, ResVars>>
           ELSE IF b.typ = T_moov THEN
             /\ Mp4Call(b, "parse_moov")
             /\ UNCHANGED Mp4Vars
           ELSE Mp4Skip(b)
    /\ UNCHANGED LangVars

\* parse_moov, lines 97-119: one iteration.
ParseMoov ==
    /\ Mp4Running("parse_moov")
    /\ LET nb == next_mp4_box(data, Top.offset, Top.end, build.bits)
           b == Unwrap(nb)
       IN  IF nb = None THEN Mp4LoopExit
           ELSE IF b.typ = T_mvhd THEN
             /\ Mp4Leaf(b)
             /\ duration' = IF SliceOk(b.ps, b.pe) /\ IsSome(parse_mvhd(data, b.ps, b.pe))
                            THEN Unwrap(parse_mvhd(data, b.ps, b.pe)) ELSE duration
             /\ UNCHANGED <<has_ftyp, format, tracks, track, timescale>>
           ELSE IF b.typ = T_trak THEN
             /\ Mp4Call(b, "parse_trak")
             /\ track' = Mp4TrackDefault
             /\ UNCHANGED <<has_ftyp, format, duration, tracks, timescale>>
           ELSE Mp4Skip(b)
    /\ UNCHANGED LangVars

\* parse_trak, lines 146-163: one iteration.
ParseTrak ==
    /\ Mp4Running("parse_trak")
    /\ LET nb == next_mp4_box(data, Top.offset, Top.end, build.bits)
           b == Unwrap(nb)
       IN  IF nb = None THEN Mp4LoopExit
           ELSE IF b.typ = T_tkhd THEN
             /\ Mp4Leaf(b)
             /\ track' = IF SliceOk(b.ps, b.pe) THEN parse_tkhd(data, b.ps, b.pe, track)
                         ELSE track
             /\ UNCHANGED <<has_ftyp, format, duration, tracks, timescale>>
           ELSE IF b.typ = T_mdia THEN
             /\ Mp4Call(b, "parse_mdia")
             /\ timescale' = None
             /\ UNCHANGED <<has_ftyp, format, duration, tracks, track>>
           ELSE Mp4Skip(b)
    /\ UNCHANGED LangVars

\* parse_mdia, lines 181-197: one iteration.
ParseMdia ==
    /\ Mp4Running("parse_mdia")
    /\ LET nb == next_mp4_box(data, Top.offset, Top.end, build.bits)
           b == Unwrap(nb)
       IN  IF nb = None THEN Mp4LoopExit
           ELSE IF b.typ = T_hdlr THEN
             /\ Mp4Leaf(b)
             /\ track' = IF SliceOk(b.ps, b.pe) THEN parse_hdlr(data, b.ps, b.pe, track)
                         ELSE track
             /\ UNCHANGED <<has_ftyp, format, duration, tracks, timescale>>
           ELSE IF b.typ = T_mdhd THEN
             /\ Mp4Leaf(b)
             /\ IF SliceOk(b.ps, b.pe)
                THEN /\ track' = parse_mdhd(data, b.ps, b.pe, timescale, track).t
                     /\ timescale' = parse_mdhd(data, b.ps, b.pe, timescale, track).ts
                ELSE UNCHANGED <<track, timescale>>
             /\ UNCHANGED <<has_ftyp, format, duration, tracks>>
           ELSE IF b.typ = T_minf THEN
             /\ Mp4Call(b, "parse_minf")
             /\ UNCHANGED Mp4Vars
           ELSE Mp4Skip(b)
    /\ UNCHANGED LangVars

\* parse_minf, lines 256-267: one iteration.
ParseMinf ==
    /\ Mp4Running("parse_minf")
    /\ LET nb == next_mp4_box(data, Top.offset, Top.end, build.bits)
           b == Unwrap(nb)
       IN  IF nb = None THEN Mp4LoopExit
           ELSE IF b.typ = T_stbl THEN
             /\ Mp4Call(b, "parse_stbl")
             /\ UNCHANGED Mp4Vars
           ELSE Mp4Skip(b)
    /\ UNCHANGED LangVars

\* parse_stbl, lines 269-282: one iteration.  With overflow checks on,
\* `offset + size` in parse_stsd panics where it would wrap.
ParseStbl ==
    /\ Mp4Running("parse_stbl")
    /\ LET nb == next_mp4_box(data, Top.offset, Top.end, build.bits)
           b == Unwrap(nb)
       IN  IF nb = None THEN Mp4LoopExit
           ELSE IF b.typ = T_stsd THEN
             IF SliceOk(b.ps, b.pe) /\ build.checks
                /\ StsdSizeWraps(data, b.ps, b.pe, build.bits)
             THEN /\ pc' = "panic"
                  /\ steps' = steps + 1
                  /\ log' = Append(log, Scanned(Top, b.ps, b.pe, b.typ, FALSE))
                  /\ UNCHANGED <<data, build, inp, stack, Mp4Vars, MkvVars, ResVars>>
             ELSE /\ Mp4Leaf(b)
                  /\ track' = IF SliceOk(b.ps, b.pe)
                              THEN parse_stsd(data, b.ps, b.pe, track, build.bits)
                              ELSE track
                  /\ UNCHANGED <<has_ftyp, format, duration, tracks, timescale>>
           ELSE IF b.typ = T_stts THEN
             /\ Mp4Leaf(b)
             /\ track' = IF SliceOk(b.ps, b.pe)
                         THEN parse_stts(data, b.ps, b.pe, timescale, track)
                         ELSE track
             /\ UNCHANGED <<has_ftyp, format, duration, tracks, timescale>>
           ELSE Mp4Skip(b)
    /\ UNCHANGED LangVars

\* Mp4Return with parse_moov keeping every track parse_trak returns.
Mp4Return_PushesAll ==
    /\ pc = "mp4"
    /\ stack # <<>>
    /\ Top.done
    /\ stack' = SubSeq(stack, 1, Len(stack) - 1)
    /\ tracks' = IF Top.fn = "parse_trak" THEN Append(tracks, track) ELSE tracks
    /\ pc' = IF Len(stack) = 1 THEN "mp4_finish" ELSE pc
    /\ UNCHANGED <<data, build, inp, steps, log, has_ftyp, format, duration,
                   track, timescale, MkvVars, ResVars>>
    /\ UNCHANGED LangVars

\* A traversal function returns to its caller; parse_moov keeps the track
\* parse_trak returns when its kind is set (lines 107-110).
Mp4Return ==
    /\ pc = "mp4"
    /\ stack # <<>>
    /\ Top.done
    /\ stack' = SubSeq(stack, 1, Len(stack) - 1)
    /\ tracks' = IF Top.fn = "parse_trak" /\ IsSome(track.kind)
                 THEN Append(tracks, track) ELSE tracks
    /\ pc' = IF Len(stack) = 1 THEN "mp4_finish" ELSE pc
    /\ UNCHANGED <<data, build, inp, steps, log, has_ftyp, format, duration,
                   track, timescale, MkvVars, ResVars>>
    /\ UNCHANGED LangVars

\* parse_mp4, lines 51-94, and the dispatcher's or_else (mod.rs line 53).
ParseMp4Finish ==
    /\ pc = "mp4_finish"
    /\ mp4res' = Mp4Result(has_ftyp, format, duration, tracks)
    /\ pc' = IF IsSome(Mp4Result(has_ftyp, format, duration, tracks))
             THEN "dispatch" ELSE "mkv_start"
    /\ UNCHANGED <<data, build, inp, stack, steps, log, Mp4Vars, MkvVars, mkvres, out>>
    /\ UNCHANGED LangVars


(***************************************************************************)
(* matroska.rs: the element walker.                                        *)
(***************************************************************************)
ID_EBML == 440786851
ID_DocType == 17026
ID_Segment == 408125543
ID_Info == 357149030
ID_Tracks == 374648427
ID_TimecodeScale == 2807729
ID_Duration == 17545
ID_TrackEntry == 174
ID_TrackType == 131
ID_CodecID == 134
ID_Language == 2274716
ID_FlagDefault == 136
ID_FlagForced == 21930
ID_DefaultDuration == 2352003
ID_Video == 224
ID_Audio == 225
ID_PixelWidth == 176
ID_PixelHeight == 186
ID_Channels == 159
ID_SamplingFrequency == 181

\* The loop `while len <= max && (first & mask) == 0 { mask >>= 1; len += 1 }`:
\* [len, mask] at its exit.
RECURSIVE LeadLoop(_, _, _, _)
LeadLoop(first, mask, len, max) ==
    IF len <= max /\ (first \div mask) % 2 = 0
    THEN LeadLoop(first, mask \div 2, len + 1, max)
    ELSE [len |-> len, mask |-> mask]

\* lim is data.len() of the slice the caller reads from.
read_ebml_id(d, lim, offset) ==
    IF offset >= lim THEN None
    ELSE LET len == LeadLoop(d[offset + 1], 128, 1, 4).len
         IN  IF len > 4 \/ offset + len > lim THEN None
             ELSE Some([id |-> Val(Slice(d, offset, offset + len)), len |-> len])

\* The size as the byte string of its value (marker bit cleared), its
\* encoded length, and whether every usable bit is set: the value equals
\* 2^(7 len) - 1 exactly when the first byte is mask - 1 and the others 0xFF.
read_ebml_size(d, lim, offset) ==
    IF offset >= lim THEN None
    ELSE LET first == d[offset + 1]
             ll == LeadLoop(first, 128, 1, 8)
             len == ll.len
             value == <<first - ll.mask>> \o Slice(d, offset + 1, offset + len)
         IN  IF len > 8 \/ offset + len > lim THEN None
             ELSE Some([value |-> value, len |-> len,
                        unknown |-> /\ value[1] = ll.mask - 1
                                    /\ \A i \in 2..len : value[i] = 255])

\* `size as usize` of an EBML size given as the bytes of its value.
SizeAsUsize(value, bits) ==
    IF bits = 32 /\ Len(value) > 4
    THEN Val(SubSeq(value, Len(value) - 3, Len(value)))
    ELSE Val(value)

\* ebml_payload_end with an element of unknown size taken as empty.
ebml_payload_end_UnknownEmpty(ps, size, unknown, end, bits) ==
    IF unknown THEN ps ELSE Min(ps + SizeAsUsize(size, bits), end)

\* The payload end of an element: the end bound when the size is unknown,
\* else payload_start.saturating_add(size as usize).min(end).
ebml_payload_end(ps, size, unknown, end, bits) ==
    IF unknown THEN end ELSE Min(ps + SizeAsUsize(size, bits), end)

\* The header steps every traversal loop of matroska.rs repeats: the
\* element at offset as [id, ps, pe, unknown], or None where the loop breaks.
ebml_next(d, lim, offset, end, bits) ==
    LET idr == read_ebml_id(d, lim, offset)
        id == Unwrap(idr)
        szr == read_ebml_size(d, lim, offset + id.len)
        sz == Unwrap(szr)
        ps == offset + id.len + sz.len
        pe == ebml_payload_end(ps, sz.value, sz.unknown, end, bits)
    IN  IF idr = None THEN None
        ELSE IF szr = None THEN None
        ELSE IF ps > end THEN None
        ELSE IF pe <= ps THEN None
        ELSE Some([id |-> id.id, ps |-> ps, pe |-> pe, unknown |-> sz.unknown])

(***************************************************************************)
(* matroska.rs: the fields.                                                *)
(***************************************************************************)
MkvTrackDefault ==
    [kind |-> None, codec |-> None, width |-> None, height |-> None,
     fps |-> None, sample_rate |-> None, channels |-> None,
     language |-> None, is_default |-> None, is_forced |-> None]

S_av1 == <<97, 118, 49>>
S_vp9 == <<118, 112, 57>>
S_vp8 == <<118, 112, 56>>
S_h264 == <<104, 50, 54, 52>>
S_avc == <<97, 118, 99>>
S_hevc == <<104, 101, 118, 99>>
S_h265 == <<104, 50, 54, 53>>
S_opus == <<111, 112, 117, 115>>
S_aac == <<97, 97, 99>>
S_vorbis == <<118, 111, 114, 98, 105, 115>>

normalize_mkv_codec(codec) ==
    LET lower == to_ascii_lowercase(codec)
    IN  IF Contains(lower, S_av1) THEN S_av1
        ELSE IF Contains(lower, S_vp9) THEN S_vp9
        ELSE IF Contains(lower, S_vp8) THEN S_vp8
        ELSE IF Contains(lower, S_h264) \/ Contains(lower, S_avc) THEN S_h264
        ELSE IF Contains(lower, S_hevc) \/ Contains(lower, S_h265) THEN S_hevc
        ELSE IF Contains(lower, S_opus) THEN S_opus
        ELSE IF Contains(lower, S_aac) THEN S_aac
        ELSE IF Contains(lower, S_vorbis) THEN S_vorbis
        ELSE lower

\* TrackKind with video as the kind of every other TrackType.
TrackKind_DefaultsToVideo(v) ==
    IF Val(v) = 2 THEN Some("audio")
    ELSE IF Val(v) = 17 THEN Some("subtitle")
    ELSE Some("video")

\* The kind of a TrackType value (lines 284-289).
TrackKind(v) ==
    IF Val(v) = 1 THEN Some("video")
    ELSE IF Val(v) = 2 THEN Some("audio")
    ELSE IF Val(v) = 17 THEN Some("subtitle")
    ELSE None

\* `v as u32` of a value of up to 8 bytes: its low 32 bits.
AsU32(v) == IF Len(v) > 4 THEN Val(SubSeq(v, Len(v) - 3, Len(v))) ELSE Val(v)

NonZero(v) == ~AllZero(v)

\* 1e9 / v, as a quotient.
FpsOfDefaultDuration(v) == <<1000000000, Val(v)>>

\* The fields parse_matroska_track_entry reads from a payload directly
\* (lines 281-310); Video and Audio are traversed by their own functions.
TrackEntryField(id, d, ps, pe, t) ==
    LET u == read_uint_be(d, ps, pe)
        text == read_utf8(Slice(d, ps, pe))
    IN  IF id = ID_TrackType THEN
          IF IsSome(u) THEN [t EXCEPT !.kind = TrackKind(Unwrap(u))] ELSE t
        ELSE IF id = ID_CodecID THEN
          IF text # <<>> THEN [t EXCEPT !.codec = Some(normalize_mkv_codec(text))] ELSE t
        ELSE IF id = ID_Language THEN
          IF text # <<>> THEN [t EXCEPT !.language = Some(text)] ELSE t
        ELSE IF id = ID_FlagDefault THEN [t EXCEPT !.is_default = MapOpt(u, NonZero)]
        ELSE IF id = ID_FlagForced THEN [t EXCEPT !.is_forced = MapOpt(u, NonZero)]
        ELSE IF id = ID_DefaultDuration THEN
          IF IsSome(u) /\ NonZero(Unwrap(u))
          THEN [t EXCEPT !.fps = Some(FpsOfDefaultDuration(Unwrap(u)))] ELSE t
        ELSE t

\* parse_matroska_video, lines 349-353.
VideoField(id, d, ps, pe, t) ==
    IF id = ID_PixelWidth THEN [t EXCEPT !.width = MapOpt(read_uint_be(d, ps, pe), AsU32)]
    ELSE IF id = ID_PixelHeight THEN [t EXCEPT !.height = MapOpt(read_uint_be(d, ps, pe), AsU32)]
    ELSE t

\* v.round() as u32 of a float, kept as the float it rounds.
RoundAsU32(f) == [round |-> f]

\* parse_matroska_audio, lines 386-392.
AudioField(id, d, ps, pe, t) ==
    IF id = ID_Channels THEN [t EXCEPT !.channels = MapOpt(read_uint_be(d, ps, pe), AsU32)]
    ELSE IF id = ID_SamplingFrequency
    THEN [t EXCEPT !.sample_rate = MapOpt(read_float_be(d, ps, pe), RoundAsU32)]
    ELSE t

\* parse_matroska_info, lines 196-206: [scale, ticks] after one element.
InfoField(id, d, ps, pe, scale, ticks) ==
    LET u == read_uint_be(d, ps, pe)
    IN  IF id = ID_TimecodeScale THEN
          [scale |-> IF IsSome(u)
                     THEN (IF AllZero(Unwrap(u)) THEN <<1>> ELSE Unwrap(u))
                     ELSE scale,
           ticks |-> ticks]
        ELSE IF id = ID_Duration THEN
          [scale |-> scale, ticks |-> read_float_be(d, ps, pe)]
        ELSE [scale |-> scale, ticks |-> ticks]


(***************************************************************************)
(* matroska.rs: parse_matroska after the walk (lines 75-111).              *)
(***************************************************************************)
MkvStream(index, t) ==
    [index |-> index, kind |-> Unwrap(t.kind),
     codec |-> IF IsSome(t.codec) THEN Unwrap(t.codec) ELSE S_unknown,
     width |-> t.width, height |-> t.height, fps |-> t.fps,
     sample_rate |-> t.sample_rate, channels |-> t.channels,
     language |-> t.language, bitrate |-> None,
     is_default |-> t.is_default, is_forced |-> t.is_forced]

RECURSIVE MkvStreams(_, _)
MkvStreams(ts, i) ==
    IF i > Len(ts) THEN <<>>
    ELSE IF IsSome(ts[i].kind) THEN <<MkvStream(i - 1, ts[i])>> \o MkvStreams(ts, i + 1)
    ELSE MkvStreams(ts, i + 1)

BitLenByte(b) ==
    IF b >= 128 THEN 8 ELSE IF b >= 64 THEN 7 ELSE IF b >= 32 THEN 6
    ELSE IF b >= 16 THEN 5 ELSE IF b >= 8 THEN 4 ELSE IF b >= 4 THEN 3
    ELSE IF b >= 2 THEN 2 ELSE b

\* Number of significant bits of a value given as bytes.
RECURSIVE BitLen(_)
BitLen(v) ==
    IF v = <<>> THEN 0
    ELSE IF Head(v) = 0 THEN BitLen(Tail(v))
    ELSE 8 * (Len(v) - 1) + BitLenByte(Head(v))

\* The classes ticks * scale / 1e9 can have in f64.  With |ticks| in
\* [2^eMin, 2^(eMax+1)) and scale in [2^(L-1), 2^L) the product lies in
\* [2^(eMin+L-1), 2^(eMax+L+1)) and the quotient above 2^(eMin+L-31); where
\* these bounds do not decide overflow or underflow, both classes are kept.
ScaledClasses(f, scale) ==
    LET L == BitLen(scale)
        eMax == f.e
        eMin == IF f.cls = "sub" THEN (IF Len(f.bits) = 4 THEN -149 ELSE -1074) ELSE f.e
    IN  IF f.cls \in {"nan", "inf", "zero"} THEN {f.cls}
        ELSE (IF eMax + L <= 1022 THEN {} ELSE {"inf"})
             \cup (IF eMin + L - 1 >= 1024 THEN {}
                   ELSE (IF eMin + L - 31 >= -1073 THEN {"fin"} ELSE {"fin", "zero"}))

\* duration_ticks.map(|t| t * scale / 1e9).unwrap_or(0.0): the durations
\* the arithmetic can give.
MkvDurations(ticks, scale) ==
    IF ticks = None THEN {[cls |-> "zero", neg |-> FALSE, of |-> <<>>]}
    ELSE {[cls |-> c, neg |-> Unwrap(ticks).neg, of |-> <<Unwrap(ticks).bits, scale>>] :
            c \in ScaledClasses(Unwrap(ticks), scale)}

MkvResult(fmt, dur, ts) ==
    IF MkvStreams(ts, 1) = <<>> THEN None
    ELSE Some([duration |-> dur, bitrate |-> 0, format |-> fmt,
               streams |-> MkvStreams(ts, 1), font_attachments |-> <<>>])

(***************************************************************************)
(* mod.rs: the dispatcher.                                                 *)
(***************************************************************************)
DurationZero == [cls |-> "zero", neg |-> FALSE, of |-> <<>>]

\* p.duration.is_finite(), and p.duration < 0.0 (false of -0.0 and NaN).
IsFinite(dur) == dur.cls \in {"zero", "fin"}
IsNegative(dur) == dur.cls \in {"fin", "inf"} /\ dur.neg

\* Sanitize without the test for a negative duration.
Sanitize_KeepsNegative(dur) == IF ~IsFinite(dur) THEN DurationZero ELSE dur

\* Lines 56-58.
Sanitize(dur) == IF ~IsFinite(dur) \/ IsNegative(dur) THEN DurationZero ELSE dur

\* mp4::parse_mp4(data).or_else(|| matroska::parse_matroska(data))
OrElse(a, b) == IF IsSome(a) THEN a ELSE b

\* The returned value: None stands for the text "{}".
MediaHeader(parsed) ==
    IF IsSome(parsed)
    THEN Some([Unwrap(parsed) EXCEPT !.duration = Sanitize(@)])
    ELSE None

(***************************************************************************)
(* The Matroska traversal machine.                                         *)
(***************************************************************************)
MkvRunning(fn) ==
    /\ pc = "mkv"
    /\ stack # <<>>
    /\ Top.fn = fn
    /\ ~Top.done
    /\ steps < MaxSteps

\* The element the loop of the running function meets, None where the loop
\* ends (`while offset < end`) or breaks.
MkvNext ==
    IF Top.offset < Top.end
    THEN ebml_next(data, Top.lim, Top.offset, Top.end, build.bits)
    ELSE None

\* The loop tail `if unknown { break; } offset = payload_end;`.
MkvAdvance(f, e) ==
    IF e.unknown THEN [f EXCEPT !.done = TRUE] ELSE [f EXCEPT !.offset = e.pe]

MkvLoopExit ==
    /\ stack' = SetTop([Top EXCEPT !.done = TRUE])
    /\ steps' = steps + 1
    /\ UNCHANGED <<data, build, inp, pc, log, Mp4Vars, MkvVars, ResVars>>

\* An element whose payload the function reads or skips.
MkvElement(e) ==
    /\ steps' = steps + 1
    /\ log' = Append(log, Scanned(Top, e.ps, e.pe, e.id, e.unknown))
    /\ IF SliceOk(e.ps, e.pe)
       THEN /\ stack' = SetTop(MkvAdvance(Top, e))
            /\ pc' = pc
       ELSE /\ stack' = stack
            /\ pc' = "panic"
    /\ UNCHANGED <<data, build, inp, Mp4Vars, ResVars>>

\* An element another traversal function runs over; lim is the length of
\* the slice that function is given.
MkvCall(e, fn, lim) ==
    /\ steps' = steps + 1
    /\ log' = Append(log, Scanned(Top, e.ps, e.pe, e.id, e.unknown))
    /\ stack' = Append(SetTop(MkvAdvance(Top, e)), Frame(fn, e.ps, e.pe, lim))
    /\ UNCHANGED <<data, build, inp, pc, Mp4Vars, ResVars>>

\* parse_matroska, lines 18-26: the magic-number gate and the locals.
ParseMatroskaStart ==
    /\ pc = "mkv_start"
    /\ steps' = steps + 1
    /\ IF Len(data) < 4 \/ Val(Slice(data, 0, 4)) # ID_EBML
       THEN /\ mkvres' = None
            /\ pc' = "dispatch"
            /\ stack' = stack
       ELSE /\ mkvres' = mkvres
            /\ pc' = "mkv"
            /\ stack' = <<Frame("parse_matroska", 0, Len(data), Len(data))>>
    /\ UNCHANGED <<data, build, inp, log, Mp4Vars, MkvVars, mp4res, out>>
    /\ UNCHANGED LangVars

\* parse_matroska, lines 28-73: one iteration of the top-level loop.
ParseMatroska ==
    /\ MkvRunning("parse_matroska")
    /\ LET ne == MkvNext
           e == Unwrap(ne)
       IN  IF ne = None THEN MkvLoopExit
           ELSE IF e.id = ID_DocType THEN
             /\ MkvElement(e)
             /\ mformat' = IF SliceOk(e.ps, e.pe) /\ read_utf8(Slice(data, e.ps, e.pe)) # <<>>
                           THEN read_utf8(Slice(data, e.ps, e.pe)) ELSE mformat
             /\ UNCHANGED <<duration_ticks, timecode_scale, mtracks, mtrack>>
           ELSE IF e.id = ID_Segment THEN
             /\ MkvCall(e, "parse_matroska_segment", Len(data))
             /\ UNCHANGED MkvVars
           ELSE /\ MkvElement(e)
                /\ UNCHANGED MkvVars
    /\ UNCHANGED LangVars

\* parse_matroska_segment, lines 122-163: one iteration.
ParseMatroskaSegment ==
    /\ MkvRunning("parse_matroska_segment")
    /\ LET ne == MkvNext
           e == Unwrap(ne)
       IN  IF ne = None THEN MkvLoopExit
           ELSE IF e.id = ID_Info THEN
             /\ MkvCall(e, "parse_matroska_info", Len(data))
             /\ UNCHANGED MkvVars
           ELSE IF e.id = ID_Tracks THEN
             /\ MkvCall(e, "parse_matroska_tracks", Len(data))
             /\ UNCHANGED MkvVars
           ELSE /\ MkvElement(e)
                /\ UNCHANGED MkvVars
    /\ UNCHANGED LangVars

\* parse_matroska_info, lines 173-212: one iteration.
ParseMatroskaInfo ==
    /\ MkvRunning("parse_matroska_info")
    /\ LET ne == MkvNext
           e == Unwrap(ne)
           r == InfoField(e.id, data, e.ps, e.pe, timecode_scale, duration_ticks)
       IN  IF ne = None THEN MkvLoopExit
           ELSE /\ MkvElement(e)
                /\ timecode_scale' = IF SliceOk(e.ps, e.pe) THEN r.scale ELSE timecode_scale
                /\ duration_ticks' = IF SliceOk(e.ps, e.pe) THEN r.ticks ELSE duration_ticks
                /\ UNCHANGED <<mformat, mtracks, mtrack>>
    /\ UNCHANGED LangVars

\* parse_matroska_tracks, lines 216-250: one iteration.
ParseMatroskaTracks ==
    /\ MkvRunning("parse_matroska_tracks")
    /\ LET ne == MkvNext
           e == Unwrap(ne)
       IN  IF ne = None THEN MkvLoopExit
           ELSE IF e.id = ID_TrackEntry THEN
             /\ MkvCall(e, "parse_matroska_track_entry", Len(data))
             /\ mtrack' = MkvTrackDefault
             /\ UNCHANGED <<mformat, duration_ticks, timecode_scale, mtracks>>
           ELSE /\ MkvElement(e)
                /\ UNCHANGED MkvVars
    /\ UNCHANGED LangVars

\* parse_matroska_track_entry, lines 256-320: one iteration.  Video and
\* Audio are handed the payload slice, so their reads end at its end.
ParseMatroskaTrackEntry ==
    /\ MkvRunning("parse_matroska_track_entry")
    /\ LET ne == MkvNext
           e == Unwrap(ne)
       IN  IF ne = None THEN MkvLoopExit
           ELSE IF e.id = ID_Video /\ SliceOk(e.ps, e.pe) THEN
             /\ MkvCall(e, "parse_matroska_video", e.pe)
             /\ UNCHANGED MkvVars
           ELSE IF e.id = ID_Audio /\ SliceOk(e.ps, e.pe) THEN
             /\ MkvCall(e, "parse_matroska_audio", e.pe)
             /\ UNCHANGED MkvVars
           ELSE /\ MkvElement(e)
                /\ mtrack' = IF SliceOk(e.ps, e.pe)
                             THEN TrackEntryField(e.id, data, e.ps, e.pe, mtrack)
                             ELSE mtrack
                /\ UNCHANGED <<mformat, duration_ticks, timecode_scale, mtracks>>
    /\ UNCHANGED LangVars

\* parse_matroska_video, lines 326-359: one iteration.
ParseMatroskaVideo ==
    /\ MkvRunning("parse_matroska_video")
    /\ LET ne == MkvNext
           e == Unwrap(ne)
       IN  IF ne = None THEN MkvLoopExit
           ELSE /\ MkvElement(e)
                /\ mtrack' = IF SliceOk(e.ps, e.pe)
                             THEN VideoField(e.id, data, e.ps, e.pe, mtrack) ELSE mtrack
                /\ UNCHANGED <<mformat, duration_ticks, timecode_scale, mtracks>>
    /\ UNCHANGED LangVars

\* parse_matroska_audio, lines 363-398: one iteration.
ParseMatroskaAudio ==
    /\ MkvRunning("parse_matroska_audio")
    /\ LET ne == MkvNext
           e == Unwrap(ne)
       IN  IF ne = None THEN MkvLoopExit
           ELSE /\ MkvElement(e)
                /\ mtrack' = IF SliceOk(e.ps, e.pe)
                             THEN AudioField(e.id, data, e.ps, e.pe, mtrack) ELSE mtrack
                /\ UNCHANGED <<mformat, duration_ticks, timecode_scale, mtracks>>
    /\ UNCHANGED LangVars

\* A traversal function returns; parse_matroska_tracks keeps the track
\* parse_matroska_track_entry returns when its kind is set (lines 240-243).
MkvReturn ==
    /\ pc = "mkv"
    /\ stack # <<>>
    /\ Top.done
    /\ stack' = SubSeq(stack, 1, Len(stack) - 1)
    /\ mtracks' = IF Top.fn = "parse_matroska_track_entry" /\ IsSome(mtrack.kind)
                  THEN Append(mtracks, mtrack) ELSE mtracks
    /\ pc' = IF Len(stack) = 1 THEN "mkv_finish" ELSE pc
    /\ UNCHANGED <<data, build, inp, steps, log, Mp4Vars, mformat, duration_ticks,
                   timecode_scale, mtrack, ResVars>>
    /\ UNCHANGED LangVars

\* parse_matroska, lines 75-111.
ParseMatroskaFinish ==
    /\ pc = "mkv_finish"
    /\ \E dur \in MkvDurations(duration_ticks, timecode_scale) :
          mkvres' = MkvResult(mformat, dur, mtracks)
    /\ pc' = "dispatch"
    /\ UNCHANGED <<data, build, inp, stack, steps, log, Mp4Vars, MkvVars, mp4res, out>>
    /\ UNCHANGED LangVars

\* parse_media_header_json, lines 53-62.
ParseMediaHeaderJson ==
    /\ pc = "dispatch"
    /\ out' = MediaHeader(OrElse(mp4res, mkvres))
    /\ pc' = "done"
    /\ UNCHANGED <<data, build, inp, stack, steps, log, Mp4Vars, MkvVars, mp4res, mkvres>>
    /\ UNCHANGED LangVars


(***************************************************************************)
(* Inputs.  A buffer is encoded from a description of the file, so that a  *)
(* property can relate the probe's result to what the file holds.  The     *)
(* description never reaches the probe: it reads data alone.               *)
(***************************************************************************)
\* Tracks per generated file.
MaxTracks == 2

BE16(n) == <<(n \div 256) % 256, n % 256>>
BE32(n) == <<(n \div 16777216) % 256, (n \div 65536) % 256, (n \div 256) % 256, n % 256>>
BE64(n) == <<0, 0, 0, 0>> \o BE32(n)
Zeros(n) == [i \in 1..n |-> 0]

RECURSIVE Concat(_)
Concat(ss) == IF ss = <<>> THEN <<>> ELSE Head(ss) \o Concat(Tail(ss))

\* The header of a box of type typ over a payload of len bytes.  A variant
\* other than "ok" is a malformed or unusual size declaration.
BoxHeader(typ, len, variant) ==
    CASE variant = "ok"        -> BE32(8 + len) \o typ
      [] variant = "zero"      -> BE32(0) \o typ
      [] variant = "small"     -> BE32(4) \o typ
      [] variant = "hdr"       -> BE32(8) \o typ
      [] variant = "big"       -> BE32(8 + len + 1) \o typ
      [] variant = "huge"      -> <<255, 255, 255, 255>> \o typ
      [] variant = "ext_ok"    -> BE32(1) \o typ \o BE64(16 + len)
      [] variant = "ext_small" -> BE32(1) \o typ \o BE64(8)
      [] variant = "ext_zero"  -> BE32(1) \o typ \o BE64(0)
      [] variant = "ext_wrap8" -> BE32(1) \o typ \o <<0, 0, 0, 1>> \o BE32(8)
      [] variant = "ext_wrap0" -> BE32(1) \o typ \o <<0, 0, 0, 1>> \o BE32(0)
      [] variant = "ext_wrapok" -> BE32(1) \o typ \o <<0, 0, 0, 1>> \o BE32(16 + len)
      [] variant = "ext_max"   -> BE32(1) \o typ \o <<255, 255, 255, 255, 255, 255, 255, 255>>

BoxVariants ==
    {"zero", "small", "hdr", "big", "huge", "ext_ok", "ext_small", "ext_zero",
     "ext_wrap8", "ext_wrap0", "ext_wrapok", "ext_max"}

\* The box named name; bad = [target, variant] malforms the header of one.
Box(name, typ, payload, bad) ==
    BoxHeader(typ, Len(payload), IF bad.target = name THEN bad.variant ELSE "ok")
        \o payload

NoBad == [target |-> "none", variant |-> "ok"]

MvhdPayload(m) ==
    IF m.v1 THEN <<1, 0, 0, 0>> \o Zeros(16) \o BE32(m.ts) \o BE64(m.dur)
    ELSE Zeros(12) \o BE32(m.ts) \o BE32(m.dur) \o Zeros(4)

TkhdPayload(w, h) == Zeros(76) \o BE16(w) \o <<0, 0>> \o BE16(h) \o <<0, 0>>
HdlrPayload(tag) == Zeros(8) \o tag
MdhdPayload(ts, dur, lang) == Zeros(12) \o BE32(ts) \o BE32(dur) \o BE16(lang) \o <<0, 0>>
SttsPayload(delta) == Zeros(4) \o BE32(1) \o BE32(100) \o BE32(delta)

\* One sample entry of esize declared bytes: the type, the 16-bit field at
\* entry offset 24, and the 16-bit fields at 32 and 34 (width and height of a
\* visual entry; the integer part of the sample rate of an audio entry).
StsdPayload(t) ==
    Zeros(4) \o BE32(1) \o t.esize \o t.codec \o Zeros(16)
        \o BE16(t.e24) \o Zeros(6) \o BE16(t.e32) \o BE16(t.e34)

T_avc1 == <<65, 86, 67, 49>>
T_meta == <<109, 101, 116, 97>>
T_free == <<102, 114, 101, 101>>

RECURSIVE Mp4Child(_, _, _)
Mp4Child(t, c, bad) ==
    CASE c = "h" -> Box("hdlr", T_hdlr, HdlrPayload(t.h), bad)
      [] c = "d" -> Box("mdhd", T_mdhd, MdhdPayload(t.ts, t.dur, t.lang), bad)
      [] c = "m" -> Box("minf", T_minf,
                        Box("stbl", T_stbl,
                            Box("stsd", T_stsd, StsdPayload(t), bad)
                              \o Box("stts", T_stts, SttsPayload(t.delta), bad), bad), bad)
      [] c = "t" -> Box("tkhd", T_tkhd, TkhdPayload(t.tw, t.th), bad)
      [] c = "M" -> Box("mdia", T_mdia,
                        Concat([i \in 1..Len(t.mo) |-> Mp4Child(t, t.mo[i], bad)]), bad)

\* The malformed header, when there is one, is in the track of index badat.
Mp4Trak(t, bad) ==
    Box("trak", T_trak, Concat([i \in 1..Len(t.to) |-> Mp4Child(t, t.to[i], bad)]), bad)

Mp4Top(f, c) ==
    CASE c = "f" -> Box("ftyp", T_ftyp, f.brand, f.bad)
      [] c = "v" -> Box("moov", T_moov,
                        (IF f.mvhd.on THEN Box("mvhd", T_mvhd, MvhdPayload(f.mvhd), f.bad)
                         ELSE <<>>)
                        \o Concat([i \in 1..Len(f.tracks) |->
                                     Mp4Trak(f.tracks[i], IF i = f.badat THEN f.bad ELSE NoBad)]),
                        f.bad)
      [] c = "x" -> Box("free", T_free, Zeros(4), f.bad)

Mp4File(f) ==
    LET all == Concat([i \in 1..Len(f.top) |-> Mp4Top(f, f.top[i])])
    IN  IF f.cut >= 0 THEN SubSeq(all, 1, Min(f.cut, Len(all))) ELSE all

Perms3 ==
    {<<"h", "d", "m">>, <<"h", "m", "d">>, <<"d", "h", "m">>,
     <<"d", "m", "h">>, <<"m", "h", "d">>, <<"m", "d", "h">>}

\* A video track: tkhd 640x480, visual sample entry 320x240, 25 fps.
VideoTrack ==
    [h |-> T_vide, tw |-> 640, th |-> 480, esize |-> BE32(36), codec |-> T_avc1,
     e24 |-> 0, e32 |-> 320, e34 |-> 240, ts |-> 1000, dur |-> 5000,
     lang |-> 5575, delta |-> 40, to |-> <<"t", "M">>, mo |-> <<"h", "d", "m">>]

\* An audio track: tkhd 0x0, 2 channels at 48000 Hz.
AudioTrack ==
    [VideoTrack EXCEPT !.h = T_soun, !.tw = 0, !.th = 0, !.e24 = 2,
                       !.e32 = 48000, !.e34 = 0, !.ts = 48000, !.dur = 336000,
                       !.lang = 21956]

Handlers == {T_vide, T_soun, T_text, T_sbtl, T_subt, T_clcp, T_meta}

\* Every handler in every order of the boxes of trak and mdia.
OrderedTracks ==
    {[VideoTrack EXCEPT !.h = h, !.to = to, !.mo = mo] :
        h \in Handlers, to \in {<<"t", "M">>, <<"M", "t">>}, mo \in Perms3}

\* Tracks that differ in their fields rather than in their order.
FieldTracks ==
    {VideoTrack, AudioTrack,
     [AudioTrack EXCEPT !.tw = 640, !.th = 480],
     [VideoTrack EXCEPT !.h = T_meta],
     [VideoTrack EXCEPT !.h = T_text, !.lang = 0],
     [VideoTrack EXCEPT !.tw = 0, !.th = 0, !.e32 = 0, !.e34 = 0, !.delta = 0],
     [VideoTrack EXCEPT !.esize = BE32(16)],
     [VideoTrack EXCEPT !.esize = <<255, 255, 255, 250>>],
     [VideoTrack EXCEPT !.esize = BE32(200)],
     [VideoTrack EXCEPT !.to = <<"M">>],
     [VideoTrack EXCEPT !.ts = 0],
     [VideoTrack EXCEPT !.dur = 9000, !.mo = <<"d", "m">>]}

\* The tracks files of several tracks are made of.
ProfileTracks ==
    {VideoTrack, AudioTrack, [VideoTrack EXCEPT !.h = T_meta],
     [VideoTrack EXCEPT !.dur = 9000, !.mo = <<"d", "m">>]}

\* Tracks of durations 5 s and 7 s, a track of 9 s whose handler is not a
\* recognized one, and a track whose mdhd timescale is 0.
DurationTracks ==
    {VideoTrack, AudioTrack, [VideoTrack EXCEPT !.h = T_meta, !.dur = 9000],
     [VideoTrack EXCEPT !.ts = 0]}

\* A track of unrecognized handler before and between two tracks kept.
Mp4DropBetween ==
    <<[VideoTrack EXCEPT !.h = T_meta], VideoTrack,
      [VideoTrack EXCEPT !.h = T_meta], AudioTrack>>

RECURSIVE SeqsUpTo(_, _)
SeqsUpTo(S, n) ==
    IF n = 0 THEN {<<>>}
    ELSE LET shorter == SeqsUpTo(S, n - 1)
         IN  shorter \cup {Append(q, x) : q \in {r \in shorter : Len(r) = n - 1}, x \in S}

B_isom == <<105, 115, 111, 109>>
B_qt == <<113, 116, 32, 32>>
B_QT == <<81, 84, 32, 32>>
B_M4A == <<77, 52, 65, 32>>

Mvhds ==
    {[on |-> FALSE, v1 |-> FALSE, ts |-> 0, dur |-> 0],
     [on |-> TRUE, v1 |-> FALSE, ts |-> 600, dur |-> 1800],
     [on |-> TRUE, v1 |-> TRUE, ts |-> 600, dur |-> 1800],
     [on |-> TRUE, v1 |-> FALSE, ts |-> 0, dur |-> 1800],
     [on |-> TRUE, v1 |-> FALSE, ts |-> 600, dur |-> 0]}

Mp4Base ==
    [fam |-> "mp4", top |-> <<"f", "v">>, brand |-> B_isom \o Zeros(4),
     mvhd |-> [on |-> TRUE, v1 |-> FALSE, ts |-> 600, dur |-> 1800],
     tracks |-> <<VideoTrack>>, bad |-> NoBad, badat |-> 1, cut |-> -1]

BoxNames ==
    {"ftyp", "moov", "mvhd", "trak", "tkhd", "mdia", "hdlr", "mdhd", "minf",
     "stbl", "stsd", "stts"}

TrakBoxNames == BoxNames \ {"ftyp", "moov", "mvhd"}

Mp4Inputs ==
    {[Mp4Base EXCEPT !.tracks = <<t>>] : t \in OrderedTracks \cup FieldTracks}
    \cup {[Mp4Base EXCEPT !.tracks = ts] : ts \in SeqsUpTo(ProfileTracks, MaxTracks)}
    \cup {[Mp4Base EXCEPT !.brand = b, !.mvhd = m, !.top = tp] :
            b \in {B_isom \o Zeros(4), B_qt, B_QT, B_M4A, <<105, 115>>, <<>>},
            m \in Mvhds,
            tp \in {<<"f", "v">>, <<"v", "f">>, <<"v">>, <<"x", "f", "v", "x">>}}
    \cup {[Mp4Base EXCEPT !.bad = [target |-> n, variant |-> v], !.tracks = ts] :
            n \in BoxNames, v \in BoxVariants,
            ts \in {<<VideoTrack>>, <<VideoTrack, AudioTrack>>}}
    \cup {[Mp4Base EXCEPT !.bad = [target |-> n, variant |-> v], !.badat = 2,
                          !.tracks = <<AudioTrack, VideoTrack>>] :
            n \in TrakBoxNames, v \in BoxVariants}
    \cup {[Mp4Base EXCEPT !.tracks = Mp4DropBetween]}
    \cup {[Mp4Base EXCEPT !.mvhd = m, !.tracks = ts] :
            m \in Mvhds, ts \in SeqsUpTo(DurationTracks, MaxTracks)}
    \cup {[Mp4Base EXCEPT !.cut = c] : c \in 0..Len(Mp4File(Mp4Base))}


(***************************************************************************)
(* Matroska inputs.  An element is [n, id, p, c]: its name, the bytes of   *)
(* its ID, and its payload p or, for a master element, its children c.     *)
(***************************************************************************)
\* The size field of an element over len payload bytes.  "unk1" to "unk8"
\* are the all-ones sizes of 1 to 8 bytes.
SizeOf(len) ==
    IF len < 127 THEN <<128 + len>> ELSE <<64 + (len \div 256), len % 256>>

EbmlSize(len, variant) ==
    CASE variant = "ok"     -> SizeOf(len)
      [] variant = "unk1"   -> <<255>>
      [] variant = "unk2"   -> <<127, 255>>
      [] variant = "unk3"   -> <<63, 255, 255>>
      [] variant = "unk4"   -> <<31, 255, 255, 255>>
      [] variant = "unk5"   -> <<15, 255, 255, 255, 255>>
      [] variant = "unk6"   -> <<7, 255, 255, 255, 255, 255>>
      [] variant = "unk7"   -> <<3, 255, 255, 255, 255, 255, 255>>
      [] variant = "unk8"   -> <<1, 255, 255, 255, 255, 255, 255, 255>>
      [] variant = "zero"   -> <<128>>
      [] variant = "bad"    -> <<0>>
      [] variant = "big"    -> SizeOf(len + 1)
      [] variant = "wide"   -> <<64 + (len \div 256), len % 256>>
      [] variant = "wrap32" -> <<1, 0, 0, 1, 0, 0, len \div 256, len % 256>>
      [] variant = "cut"    -> <<64>>
      [] variant = "badid"  -> SizeOf(len)

UnknownVariants == {"unk1", "unk2", "unk3", "unk4", "unk5", "unk6", "unk7", "unk8"}
EbmlVariants ==
    UnknownVariants \cup {"zero", "bad", "big", "wide", "wrap32", "cut", "badid"}

Leaf(n, id, p) == [n |-> n, id |-> id, p |-> p, c |-> <<>>]
Master(n, id, c) == [n |-> n, id |-> id, p |-> <<>>, c |-> c]

\* Masters nest at most three deep below the top level (Segment, Tracks,
\* TrackEntry, Video), so the encoder is unrolled rather than recursive.
\* The ID of an element; "badid" puts a byte of four leading zero bits, which
\* is the first byte of no ID, in its place.
EncId(el, bad) ==
    IF bad.target = el.n /\ bad.variant = "badid" THEN <<8>> ELSE el.id

EncLeaf(el, bad) ==
    EncId(el, bad) \o EbmlSize(Len(el.p), IF bad.target = el.n THEN bad.variant ELSE "ok") \o el.p

EncWith(el, body, bad) ==
    EncId(el, bad) \o EbmlSize(Len(body), IF bad.target = el.n THEN bad.variant ELSE "ok") \o body

Enc1(el, bad) ==
    IF el.c = <<>> THEN EncLeaf(el, bad)
    ELSE EncWith(el, Concat([i \in 1..Len(el.c) |-> EncLeaf(el.c[i], bad)]), bad)

Enc2(el, bad) ==
    IF el.c = <<>> THEN EncLeaf(el, bad)
    ELSE EncWith(el, Concat([i \in 1..Len(el.c) |-> Enc1(el.c[i], bad)]), bad)

Enc3(el, bad) ==
    IF el.c = <<>> THEN EncLeaf(el, bad)
    ELSE EncWith(el, Concat([i \in 1..Len(el.c) |-> Enc2(el.c[i], bad)]), bad)

Enc4(el, bad) ==
    IF el.c = <<>> THEN EncLeaf(el, bad)
    ELSE EncWith(el, Concat([i \in 1..Len(el.c) |-> Enc3(el.c[i], bad)]), bad)

B_EBML == <<26, 69, 223, 163>>
B_DocType == <<66, 130>>
B_Segment == <<24, 83, 128, 103>>
B_Info == <<21, 73, 169, 102>>
B_Tracks == <<22, 84, 174, 107>>
B_TimecodeScale == <<42, 215, 177>>
B_Duration == <<68, 137>>
B_Void == <<236>>

E_Type(p) == Leaf("type", <<131>>, p)
E_Codec(p) == Leaf("codec", <<134>>, p)
E_Lang(p) == Leaf("lang", <<34, 181, 156>>, p)
E_Default(p) == Leaf("default", <<136>>, p)
E_Forced(p) == Leaf("forced", <<85, 170>>, p)
E_DefDur(p) == Leaf("defdur", <<35, 227, 131>>, p)
E_Video(w, h) ==
    Master("video", <<224>>, <<Leaf("width", <<176>>, w), Leaf("height", <<186>>, h)>>)
E_Audio(ch, sf) ==
    Master("audio", <<225>>, <<Leaf("channels", <<159>>, ch), Leaf("freq", <<181>>, sf)>>)

C_AVC == <<86, 95, 77, 80, 69, 71, 52, 47, 73, 83, 79, 47, 65, 86, 67>>
C_OPUS == <<65, 95, 79, 80, 85, 83>>
C_TEXT == <<83, 95, 84, 69, 88, 84, 47, 85, 84, 70, 56>>
C_CUSTOM == <<88, 95, 67, 85, 83, 84, 79, 77>>
C_VP9 == <<86, 95, 86, 80, 57>>
L_eng == <<101, 110, 103>>
D_webm == <<119, 101, 98, 109>>

\* 48000.0 as an f32.
F_48000 == <<71, 59, 128, 0>>

\* A track: the TrackType it declares (tt) and its elements in file order.
MkvVideo ==
    [tt |-> 1,
     els |-> <<E_Type(<<1>>), E_Codec(C_AVC), E_Lang(L_eng), E_Default(<<1>>),
               E_DefDur(<<2, 98, 90, 0>>), E_Video(<<5, 0>>, <<2, 208>>)>>]

MkvAudio ==
    [tt |-> 2,
     els |-> <<E_Type(<<2>>), E_Codec(C_OPUS), E_Forced(<<0>>),
               E_Audio(<<2>>, F_48000)>>]

MkvSubtitle == [tt |-> 17, els |-> <<E_Type(<<17>>), E_Codec(C_TEXT)>>]

\* TrackType 99 with codec, Video and Audio data.
MkvUnrecognized ==
    [tt |-> 99,
     els |-> <<E_Type(<<99>>), E_Codec(C_VP9), E_Video(<<5, 0>>, <<2, 208>>),
               E_Audio(<<2>>, F_48000)>>]

\* A video track whose DefaultDuration and PixelWidth are nine bytes wide,
\* more than an unsigned integer may have.
MkvWideFields ==
    [tt |-> 1,
     els |-> <<E_Type(<<1>>), E_DefDur(Zeros(8) \o <<1>>), E_Codec(C_AVC),
               E_Video(Zeros(8) \o <<1>>, <<2, 208>>)>>]

\* A video track whose CodecID is an element of size 0.
MkvEmptyCodec ==
    [tt |-> 1,
     els |-> <<E_Type(<<1>>), E_Codec(<<>>), E_Lang(L_eng),
               E_Video(<<5, 0>>, <<2, 208>>)>>]

\* A track of unrecognized TrackType before and between two tracks kept.
MkvDropBetween == <<MkvUnrecognized, MkvVideo, MkvUnrecognized, MkvAudio>>

MkvProfileTracks == {MkvVideo, MkvAudio, MkvSubtitle, MkvUnrecognized}

MkvFieldTracks ==
    {MkvVideo, MkvAudio, MkvSubtitle, MkvUnrecognized,
     \* an audio track that carries DefaultDuration and a Video element
     [tt |-> 2, els |-> <<E_Type(<<2>>), E_DefDur(<<1, 49, 45, 0>>),
                          E_Video(<<5, 0>>, <<2, 208>>), E_Audio(<<2>>, F_48000)>>],
     \* a subtitle track that carries an Audio element
     [tt |-> 17, els |-> <<E_Type(<<17>>), E_Audio(<<2>>, F_48000)>>],
     \* a video track of zero width, and one whose width is 2^32
     [tt |-> 1, els |-> <<E_Type(<<1>>), E_Video(<<0>>, <<1, 0, 0, 0, 0>>)>>],
     \* a two-byte TrackType, DefaultDuration 0, a custom codec
     [tt |-> 1, els |-> <<E_Type(<<0, 1>>), E_Codec(C_CUSTOM), E_DefDur(<<0>>)>>],
     \* TrackType set and then set again to an unrecognized value
     [tt |-> 99, els |-> <<E_Type(<<1>>), E_Codec(C_AVC), E_Type(<<99>>)>>],
     \* TrackType of nine bytes, which read_uint_be refuses
     [tt |-> 0, els |-> <<E_Type(Zeros(8) \o <<1>>), E_Codec(C_AVC)>>],
     \* the kind comes after the other elements
     [tt |-> 1, els |-> <<E_Video(<<5, 0>>, <<2, 208>>), E_DefDur(<<2, 98, 90, 0>>),
                          E_Codec(C_VP9), E_Type(<<1>>)>>]}

\* Duration payloads: 5000.0 (f32 and f64), -1.0, NaN, +inf, -inf, the
\* largest f64, -0.0, the smallest subnormal f64, and three bytes.
DurationPayloads ==
    {<<69, 156, 64, 0>>, <<64, 179, 136, 0, 0, 0, 0, 0>>, <<191, 128, 0, 0>>,
     <<127, 192, 0, 0>>, <<127, 128, 0, 0>>, <<255, 128, 0, 0>>,
     <<127, 239, 255, 255, 255, 255, 255, 255>>, <<128, 0, 0, 0>>,
     <<0, 0, 0, 0, 0, 0, 0, 1>>, <<1, 2, 3>>}

\* TimecodeScale payloads: 1,000,000, 0, and the largest u64.
ScalePayloads ==
    {<<15, 66, 64>>, <<0>>, <<255, 255, 255, 255, 255, 255, 255, 255>>}

\* dt: where the DocType element is ("header": inside the EBML header, as
\* Matroska files have it; "top": a top-level element; "none"); info: the
\* children of Info, none for no Info element.
MkvBase ==
    [fam |-> "mkv", dt |-> "header", doctype |-> D_webm,
     info |-> <<Leaf("scale", B_TimecodeScale, <<15, 66, 64>>),
                Leaf("duration", B_Duration, <<69, 156, 64, 0>>)>>,
     tracks |-> <<MkvVideo>>, bad |-> NoBad, cut |-> -1]

MkvEntry(t) == Master("entry", <<174>>, t.els)

MkvTop(f) ==
    <<Master("ebml", B_EBML,
             (IF f.dt = "header" THEN <<Leaf("doctype", B_DocType, f.doctype)>> ELSE <<>>)
             \o <<Leaf("version", <<66, 134>>, <<1>>)>>)>>
    \o (IF f.dt = "top" THEN <<Leaf("doctype", B_DocType, f.doctype)>> ELSE <<>>)
    \o <<Master("segment", B_Segment,
                (IF f.info # <<>> THEN <<Master("info", B_Info, f.info)>> ELSE <<>>)
                \o <<Master("tracks", B_Tracks,
                            [i \in 1..Len(f.tracks) |-> MkvEntry(f.tracks[i])])>>
                \o <<Leaf("void", B_Void, <<0, 0>>)>>)>>

MkvFile(f) ==
    LET all == Concat([i \in 1..Len(MkvTop(f)) |-> Enc4(MkvTop(f)[i], f.bad)])
    IN  IF f.cut >= 0 THEN SubSeq(all, 1, Min(f.cut, Len(all))) ELSE all

MkvNames ==
    {"ebml", "doctype", "segment", "info", "scale", "duration", "tracks", "entry",
     "type", "codec", "defdur", "video", "width", "height", "void"}

MkvAudioNames == {"audio", "channels", "freq", "forced"}

MkvInputs ==
    {[MkvBase EXCEPT !.tracks = <<t>>] : t \in MkvFieldTracks}
    \cup {[MkvBase EXCEPT !.tracks = ts] : ts \in SeqsUpTo(MkvProfileTracks, MaxTracks)}
    \cup {[MkvBase EXCEPT !.dt = w, !.doctype = x] :
            w \in {"header", "top", "none"},
            x \in {D_webm, <<>>, <<32, 87, 101, 98, 77, 0>>}}
    \cup {[MkvBase EXCEPT !.info = <<Leaf("scale", B_TimecodeScale, sc),
                                     Leaf("duration", B_Duration, du)>>] :
            sc \in ScalePayloads, du \in DurationPayloads}
    \cup {[MkvBase EXCEPT !.info = i] :
            i \in {<<>>, <<Leaf("duration", B_Duration, <<69, 156, 64, 0>>)>>,
                   <<Leaf("scale", B_TimecodeScale, <<15, 66, 64>>)>>,
                   <<Leaf("duration", B_Duration, <<191, 128, 0, 0>>),
                     Leaf("scale", B_TimecodeScale, <<15, 66, 64>>)>>}}
    \cup {[MkvBase EXCEPT !.bad = [target |-> n, variant |-> v],
                          !.tracks = <<MkvVideo, MkvAudio>>] :
            n \in MkvNames, v \in EbmlVariants}
    \cup {[MkvBase EXCEPT !.bad = [target |-> n, variant |-> v],
                          !.tracks = <<MkvAudio, MkvVideo>>] :
            n \in MkvAudioNames, v \in EbmlVariants}
    \cup {[MkvBase EXCEPT !.bad = [target |-> n, variant |-> v],
                          !.tracks = <<MkvVideo, MkvAudio>>] :
            n \in MkvAudioNames, v \in EbmlVariants}
    \cup {[MkvBase EXCEPT !.tracks = MkvDropBetween]}
    \cup {[MkvBase EXCEPT !.tracks = <<t, MkvAudio>>, !.info = i] :
            t \in {MkvWideFields, MkvEmptyCodec},
            i \in {<<Leaf("scale", B_TimecodeScale, Zeros(8) \o <<1>>),
                     Leaf("duration", B_Duration, <<69, 156, 64, 0>>)>>,
                   <<Leaf("scale", B_TimecodeScale, <<>>),
                     Leaf("duration", B_Duration, <<69, 156, 64, 0>>)>>}}
    \cup {[MkvBase EXCEPT !.cut = c] : c \in 0..Len(MkvFile(MkvBase))}

(***************************************************************************)
(* The specification.                                                      *)
(***************************************************************************)
Inputs == Mp4Inputs \cup MkvInputs

Encode(f) == IF f.fam = "mp4" THEN Mp4File(f) ELSE MkvFile(f)

\* The builds: a 64-bit target, and the 32-bit wasm32 target the crate is
\* bound for, without and (where it matters) with overflow checks.
Builds(f) ==
    {[bits |-> 64, checks |-> FALSE], [bits |-> 32, checks |-> FALSE]}
    \cup (IF f.fam = "mp4" /\ f.tracks # <<>> /\ f.tracks[1].esize[1] = 255
          THEN {[bits |-> 32, checks |-> TRUE]} ELSE {})

Init ==
    /\ inp \in Inputs
    /\ build \in Builds(inp)
    /\ data = Encode(inp)
    /\ pc = "start"
    /\ stack = <<>>
    /\ steps = 0
    /\ log = <<>>
    /\ has_ftyp = FALSE
    /\ format = S_mp4
    /\ duration = FracZero
    /\ tracks = <<>>
    /\ track = Mp4TrackDefault
    /\ timescale = None
    /\ mformat = S_matroska
    /\ duration_ticks = None
    /\ timecode_scale = <<15, 66, 64>>
    /\ mtracks = <<>>
    /\ mtrack = MkvTrackDefault
    /\ mp4res = None
    /\ mkvres = None
    /\ out = None
    /\ raw = 0
    /\ decoded = None

Next ==
    \/ ParseMp4Start
    \/ ParseMp4
    \/ ParseMoov
    \/ ParseTrak
    \/ ParseMdia
    \/ ParseMinf
    \/ ParseStbl
    \/ Mp4Return
    \/ ParseMp4Finish
    \/ ParseMatroskaStart
    \/ ParseMatroska
    \/ ParseMatroskaSegment
    \/ ParseMatroskaInfo
    \/ ParseMatroskaTracks
    \/ ParseMatroskaTrackEntry
    \/ ParseMatroskaVideo
    \/ ParseMatroskaAudio
    \/ MkvReturn
    \/ ParseMatroskaFinish
    \/ ParseMediaHeaderJson

Spec == Init /\ [][Next]_vars

(***************************************************************************)
(* decode_mp4_language applied to every 16-bit value.                      *)
(***************************************************************************)
\* u16::MAX, the largest packed language value.
MaxRaw == 65535

LangInit ==
    /\ raw \in 0..MaxRaw
    /\ decoded = None
    /\ pc = "decode"
    /\ inp = Mp4Base
    /\ build = [bits |-> 64, checks |-> FALSE]
    /\ data = <<>>
    /\ stack = <<>>
    /\ steps = 0
    /\ log = <<>>
    /\ has_ftyp = FALSE
    /\ format = S_mp4
    /\ duration = FracZero
    /\ tracks = <<>>
    /\ track = Mp4TrackDefault
    /\ timescale = None
    /\ mformat = S_matroska
    /\ duration_ticks = None
    /\ timecode_scale = <<15, 66, 64>>
    /\ mtracks = <<>>
    /\ mtrack = MkvTrackDefault
    /\ mp4res = None
    /\ mkvres = None
    /\ out = None

\* track.language = lang.and_then(decode_mp4_language), for the two bytes
\* read_u16_be returns.
DecodeMp4Language ==
    /\ pc = "decode"
    /\ decoded' = decode_mp4_language(<<raw \div 256, raw % 256>>)
    /\ pc' = "decoded"
    /\ UNCHANGED <<raw, data, build, inp, stack, steps, log, Mp4Vars, MkvVars, ResVars>>

LangNext == DecodeMp4Language

LangSpec == LangInit /\ [][LangNext]_vars


(***************************************************************************)
(* Properties.                                                             *)
(***************************************************************************)
Finished == pc = "done"
WellFormed == inp.bad = NoBad /\ inp.cut = -1
Result == Unwrap(out)

\* C1: for every input the probe returns a result or "{}": no execution
\* reaches a fatal error, and every payload range [ps, pe) a walker hands on
\* satisfies ps <= pe <= buffer length.
C1_NoFatalError ==
    /\ pc # "panic"
    /\ \A i \in 1..Len(log) : log[i].ps <= log[i].pe /\ log[i].pe <= Len(data)

\* C2: probing terminates: in every traversal loop each iteration exits the
\* loop or strictly increases the offset (two units scanned by one running
\* loop are at increasing offsets), the offset of a running loop never
\* exceeds its end bound, which is within the buffer, and the iterations of
\* one probe stay below the step bound.
C2_Termination ==
    /\ \A i \in 1..Len(stack) :
          stack[i].offset <= stack[i].end /\ stack[i].end <= Len(data)
    /\ \A i, j \in 1..Len(log) :
          (i < j /\ log[i].frame = log[j].frame) => log[i].off < log[j].off
    /\ steps < MaxSteps

\* The one trak of the file is a video trak with tkhd, mdhd and an stsd
\* whose first entry is as large as a visual sample entry.
OneVideoTrak ==
    /\ inp.fam = "mp4"
    /\ WellFormed
    /\ \E i \in 1..Len(inp.top) : inp.top[i] = "f"
    /\ \E i \in 1..Len(inp.top) : inp.top[i] = "v"
    /\ Len(inp.brand) >= 4
    /\ Len(inp.tracks) = 1
    /\ LET t == inp.tracks[1]
       IN  /\ t.h = T_vide
           /\ t.esize = BE32(36)
           /\ \E i \in 1..Len(t.to) : t.to[i] = "t"
           /\ \E i \in 1..Len(t.to) : t.to[i] = "M"
           /\ \A c \in {"h", "d", "m"} : \E i \in 1..Len(t.mo) : t.mo[i] = c

\* C3: for an MP4 input with one ftyp, one moov and one video trak with
\* tkhd, mdhd and a large enough stsd entry, the reported width and height
\* are those of the stsd visual sample entry, whatever tkhd declares and
\* whichever of tkhd and mdia comes first.
C3_StsdPrecedence ==
    (Finished /\ OneVideoTrak) =>
        /\ out # None
        /\ Len(Result.streams) = 1
        /\ Result.streams[1].width = {inp.tracks[1].e32}
        /\ Result.streams[1].height = {inp.tracks[1].e34}


Kinds(streams) == [i \in 1..Len(streams) |-> streams[i].kind]
OutKinds == IF out = None THEN <<>> ELSE Kinds(Result.streams)
HasTop(c) == \E i \in 1..Len(inp.top) : inp.top[i] = c
AfterMp4 == pc \in {"mkv_start", "mkv", "mkv_finish", "dispatch", "done"}
AfterMkv == pc \in {"dispatch", "done"}

\* C4: a result has a non-empty stream list: an extractor that passed its
\* gate with zero tracks of determined kind reports no result.  The
\* dispatcher returns the MP4 result when there is one, consults the
\* Matroska extractor only when there is none, and yields "{}" exactly when
\* both report none.
C4_NonEmptyResult ==
    /\ mp4res # None => Unwrap(mp4res).streams # <<>>
    /\ mkvres # None => Unwrap(mkvres).streams # <<>>
    /\ (AfterMp4 /\ has_ftyp /\ tracks = <<>>) => mp4res = None
    /\ (AfterMkv /\ mtracks = <<>>) => mkvres = None
    /\ pc \in {"mkv_start", "mkv", "mkv_finish"} => mp4res = None
    /\ mkvres # None => mp4res = None
    /\ Finished =>
         /\ out # None => Result.streams # <<>>
         /\ mp4res # None =>
              /\ out # None
              /\ Result.streams = Unwrap(mp4res).streams
              /\ Result.format = Unwrap(mp4res).format
         /\ (mp4res = None /\ mkvres # None) =>
              /\ out # None
              /\ Result.streams = Unwrap(mkvres).streams
              /\ Result.format = Unwrap(mkvres).format
         /\ out = None <=> (mp4res = None /\ mkvres = None)

\* An MP4 file that passes the ftyp gate and holds no track of determined
\* kind ends with "{}".
C4_Witness ==
    /\ Finished
    /\ inp.fam = "mp4"
    /\ has_ftyp
    /\ tracks = <<>>
    /\ \E i \in 1..Len(log) : log[i].id = T_trak
    /\ out = None

\* The kind the file's description gives a track, None when its kind is not
\* a recognized one.
C5_TrackKind(fam, t) ==
    IF fam = "mp4" THEN
      IF ~(\E i \in 1..Len(t.to) : t.to[i] = "M") THEN None
      ELSE IF ~(\E i \in 1..Len(t.mo) : t.mo[i] = "h") THEN None
      ELSE IF t.h = <<118, 105, 100, 101>> THEN {"video"}
      ELSE IF t.h = <<115, 111, 117, 110>> THEN {"audio"}
      ELSE IF t.h \in {<<116, 101, 120, 116>>, <<115, 98, 116, 108>>,
                       <<115, 117, 98, 116>>, <<99, 108, 99, 112>>} THEN {"subtitle"}
      ELSE None
    ELSE
      IF t.tt = 1 THEN {"video"}
      ELSE IF t.tt = 2 THEN {"audio"}
      ELSE IF t.tt = 17 THEN {"subtitle"}
      ELSE None

RECURSIVE C5_ExpectedKinds(_, _)
C5_ExpectedKinds(fam, ts) ==
    IF ts = <<>> THEN <<>>
    ELSE (IF C5_TrackKind(fam, Head(ts)) = None THEN <<>>
          ELSE <<Unwrap(C5_TrackKind(fam, Head(ts)))>>)
         \o C5_ExpectedKinds(fam, Tail(ts))

\* The walk reaches the file's tracks: an MP4 file has its ftyp and moov
\* boxes, a Matroska file has no empty element before its Segment.
TracksReached ==
    IF inp.fam = "mp4" THEN HasTop("f") /\ HasTop("v")
    ELSE ~(inp.dt = "top" /\ inp.doctype = <<>>)

\* C5: the stream list holds exactly the tracks whose kind is a recognized
\* one, in discovery order, and every kind is video, audio or subtitle; a
\* track of unrecognized TrackType or handler gives no stream, whatever else
\* it holds, and the other tracks are still reported.
C5_RecognizedKindsOnly ==
    /\ \A i \in 1..Len(OutKinds) : OutKinds[i] \in {"video", "audio", "subtitle"}
    /\ (Finished /\ WellFormed /\ TracksReached) => OutKinds = C5_ExpectedKinds(inp.fam, inp.tracks)

\* A Matroska file with a TrackEntry of TrackType 99 that holds codec, Video
\* and Audio data, followed by a video track: one stream, the video.
C5_Witness ==
    /\ Finished
    /\ inp.fam = "mkv"
    /\ inp.tracks = <<MkvUnrecognized, MkvVideo>>
    /\ OutKinds = <<"video">>

\* C6: the returned duration is finite and >= 0: a negative, NaN or infinite
\* duration of the extractor is replaced by 0, any other is returned
\* unchanged.
C6_DurationSanitized ==
    (Finished /\ out # None) =>
        LET d == Unwrap(OrElse(mp4res, mkvres)).duration
            bad == d.cls \in {"nan", "inf"} \/ (d.cls = "fin" /\ d.neg)
        IN  /\ Result.duration.cls \in {"zero", "fin"}
            /\ Result.duration.cls = "fin" => ~Result.duration.neg
            /\ bad => Result.duration = [cls |-> "zero", neg |-> FALSE, of |-> <<>>]
            /\ ~bad => Result.duration = d

\* A Matroska Duration of -1.0 reaches the dispatcher and is returned as 0.
C6_Witness ==
    /\ Finished
    /\ mkvres # None
    /\ Unwrap(mkvres).duration.cls = "fin"
    /\ Unwrap(mkvres).duration.neg
    /\ out # None
    /\ Result.duration.cls = "zero"

\* A quotient <<n, d>>, or a one-element option of a number, is positive.
C7_Positive(o) == \A x \in o : x > 0
C7_PositiveQuot(o) == \A x \in o : x[1] > 0 /\ x[2] > 0

\* C7: width, height and frame rate are present only on video streams and
\* are positive when present; sample rate and channel count are present
\* only on audio streams.
C7_KindSpecificFields ==
    out # None =>
        \A i \in 1..Len(Result.streams) :
            LET st == Result.streams[i]
            IN  /\ (st.width # None \/ st.height # None \/ st.fps # None)
                      => st.kind = "video"
                /\ C7_Positive(st.width) /\ C7_Positive(st.height)
                /\ C7_PositiveQuot(st.fps)
                /\ (st.sample_rate # None \/ st.channels # None)
                      => st.kind = "audio"


UnknownAt(n) == inp.fam = "mkv" /\ inp.cut = -1 /\ inp.bad.target = n
                /\ inp.bad.variant \in UnknownVariants

\* C8: an element whose size field is all ones, at any width from 1 to 8
\* bytes and at every level, has the enclosing bound as its payload end,
\* has its content processed as usual, and is the last sibling scanned at
\* its level; the levels above go on.
C8_UnknownSize ==
    /\ \A i \in 1..Len(log) :
          log[i].unknown =>
              /\ log[i].pe = log[i].end
              /\ \A j \in 1..Len(log) : j > i => log[j].frame # log[i].frame
    /\ (Finished /\ (UnknownAt("segment") \/ UnknownAt("tracks")))
          => OutKinds = <<"video", "audio">>
    /\ (Finished /\ UnknownAt("info")) => duration_ticks # None /\ out = None
    /\ (Finished /\ UnknownAt("entry")) =>
          /\ OutKinds = <<"video">>
          /\ Result.streams[1].width = {1280}
          /\ Result.streams[1].codec = S_h264
    /\ (Finished /\ UnknownAt("video")) =>
          /\ OutKinds = <<"video", "audio">>
          /\ Result.streams[1].width = {1280}
          /\ Result.streams[1].height = {720}
    /\ (Finished /\ UnknownAt("audio")) =>
          /\ Len(OutKinds) = 2
          /\ \E i \in 1..2 : /\ Result.streams[i].kind = "audio"
                              /\ Result.streams[i].channels = {2}
    /\ (Finished /\ UnknownAt("width")) =>
          /\ OutKinds = <<"video", "audio">>
          /\ Result.streams[1].width # None
          /\ Result.streams[1].height = None

\* A TrackEntry with the eight-byte unknown size: its fields are read, the
\* entry after it is not scanned as a sibling, and the result is still made.
C8_Witness ==
    /\ Finished
    /\ UnknownAt("entry")
    /\ inp.bad.variant = "unk8"
    /\ \E i \in 1..Len(log) :
          /\ log[i].unknown
          /\ log[i].fn = "parse_matroska_tracks"
          /\ log[i].id = ID_TrackEntry
    /\ OutKinds = <<"video">>

\* C9: the format of a Matroska result is the text of the DocType element
\* of the EBML header when the header holds one of non-empty text, and
\* "matroska" otherwise.
C9_DocTypeFormat ==
    (Finished /\ inp.fam = "mkv" /\ WellFormed /\ out # None) =>
        Result.format = IF inp.dt = "header" /\ read_utf8(inp.doctype) # <<>>
                        THEN read_utf8(inp.doctype)
                        ELSE S_matroska

FtypScanned == \E i \in 1..Len(log) : log[i].fn = "parse_mp4" /\ log[i].id = T_ftyp
Mp4Plain == Finished /\ inp.fam = "mp4" /\ WellFormed /\ mp4res # None
Major == SubSeq(inp.brand, 1, 4)

\* C10 as stated: no MP4 result without an ftyp box reached at the top
\* level; the format is the lower-cased, trimmed major brand, "mov" for the
\* brand "qt  ", and "mp4" when the ftyp payload is shorter than 4 bytes.
C10_FtypFormat_AsStated ==
    /\ (AfterMp4 /\ ~FtypScanned) => mp4res = None
    /\ Mp4Plain =>
          Result.format =
              IF Len(inp.brand) < 4 THEN S_mp4
              ELSE IF Major = S_qt THEN S_mov
              ELSE trim(to_ascii_lowercase(Lossy(Major)))

\* C10: no MP4 result without an ftyp box reached at the top level; the
\* format is the lower-cased, trimmed major brand, "mov" for a brand whose
\* lower-cased form is "qt  ", and "mp4" when the ftyp payload is shorter
\* than 4 bytes.
C10_FtypFormat ==
    /\ (AfterMp4 /\ ~FtypScanned) => mp4res = None
    /\ Mp4Plain =>
          Result.format =
              IF Len(inp.brand) < 4 THEN S_mp4
              ELSE IF to_ascii_lowercase(Lossy(Major)) = S_qt THEN S_mov
              ELSE trim(to_ascii_lowercase(Lossy(Major)))

\* The brand "QT  " gives the format "mov".
C10_Witness ==
    /\ Mp4Plain
    /\ inp.brand = B_QT
    /\ FtypScanned
    /\ Result.format = S_mov


FracEq(a, b) == ~FracGT(a, b) /\ ~FracGT(b, a)
HasChild(seq, c) == \E i \in 1..Len(seq) : seq[i] = c

\* The duration the file's mvhd gives, None when it gives none that is positive.
C11_MvhdDuration ==
    IF inp.mvhd.on /\ inp.mvhd.ts # 0 /\ inp.mvhd.dur > 0
    THEN Some(<<inp.mvhd.dur, inp.mvhd.ts>>) ELSE None

\* The duration the mdhd of a trak gives.
C11_TrackDuration(t) ==
    IF HasChild(t.to, "M") /\ HasChild(t.mo, "d") /\ t.ts > 0
    THEN Some(<<t.dur, t.ts>>) ELSE None

\* got is the largest of the durations of the tracks of ts, 0 when none has one.
C11_IsMax(got, ts) ==
    /\ \A i \in 1..Len(ts) :
          \A d \in C11_TrackDuration(ts[i]) : ~FracGT(d, got)
    /\ \/ \E i \in 1..Len(ts) : \E d \in C11_TrackDuration(ts[i]) : FracEq(d, got)
       \/ got[1] = 0

C11_Kept == SelectSeq(inp.tracks, LAMBDA t : C5_TrackKind("mp4", t) # None)
C11_Case == Mp4Plain /\ HasTop("v")

\* C11 as stated: the top-level duration is the positive mvhd duration, else
\* the maximum of the mdhd durations over all the traks of moov.
C11_TopDuration_AsStated ==
    C11_Case =>
        LET got == Unwrap(mp4res).duration.of
        IN  IF C11_MvhdDuration # None THEN FracEq(got, Unwrap(C11_MvhdDuration))
            ELSE C11_IsMax(got, inp.tracks)

\* C11: the top-level duration of an MP4 result is the mvhd duration when
\* an mvhd of nonzero timescale gives a positive one; otherwise it is the
\* maximum of the mdhd durations over the tracks that were kept (those of
\* determined kind), and 0 when none of them has a duration.
C11_TopDuration ==
    C11_Case =>
        LET got == Unwrap(mp4res).duration.of
        IN  /\ Result.duration = Unwrap(mp4res).duration
            /\ IF C11_MvhdDuration # None THEN FracEq(got, Unwrap(C11_MvhdDuration))
               ELSE C11_IsMax(got, C11_Kept)

\* No mvhd, a video track of 5 s and a dropped track of 9 s: 5 s.
C11_Witness ==
    /\ C11_Case
    /\ ~inp.mvhd.on
    /\ inp.tracks = <<VideoTrack, [VideoTrack EXCEPT !.h = T_meta, !.dur = 9000]>>
    /\ FracEq(Unwrap(mp4res).duration.of, <<5, 1>>)


\* C12: in every result the index of the i-th stream is i, counted from 0,
\* also when tracks of undetermined kind were met before or between the
\* tracks kept.
C12_IndexContiguous ==
    /\ \A r \in mp4res \cup mkvres \cup out :
          \A i \in 1..Len(r.streams) : r.streams[i].index = i - 1

\* Four tracks, the first and the third dropped: streams 0 and 1.
C12_Witness ==
    /\ Finished
    /\ inp.tracks \in {Mp4DropBetween, MkvDropBetween}
    /\ OutKinds = <<"video", "audio">>
    /\ Result.streams[2].index = 1


\* The call of next_mp4_box the running MP4 traversal is about to make.
C13_Call ==
    /\ pc = "mp4"
    /\ stack # <<>>
    /\ ~Top.done
    /\ Top.offset <= Top.end
    /\ Top.end <= Len(data)

\* C13: when next_mp4_box returns a box, payload_start = offset + header
\* (16 when the 32-bit size is 1, else 8), payload_start <= payload_end <=
\* limit and next = payload_end > offset; it returns no box when the header
\* does not fit before limit, when the declared size is smaller than the
\* header, or when offset + size exceeds limit, whatever the declared size
\* and the width of usize.
C13_NextMp4Box ==
    C13_Call =>
        LET o == Top.offset
            lim == Top.end
            r == next_mp4_box(data, o, lim, build.bits)
            fits8 == o + 8 <= lim
            size32 == Val(Slice(data, o, o + 4))
            header == IF size32 = 1 THEN 16 ELSE 8
            fits == o + header <= lim
            size == IF size32 = 1 THEN Val(Slice(data, o + 8, o + 16))
                    ELSE IF size32 = 0 THEN lim - o
                    ELSE size32
        IN  /\ ~fits8 => r = None
            /\ (fits8 /\ ~fits) => r = None
            /\ (fits8 /\ fits /\ size < header) => r = None
            /\ (fits8 /\ fits /\ o + size > lim) => r = None
            /\ r # None =>
                  /\ Unwrap(r).ps = o + header
                  /\ Unwrap(r).ps <= Unwrap(r).pe
                  /\ Unwrap(r).pe <= lim
                  /\ Unwrap(r).next = Unwrap(r).pe
                  /\ Unwrap(r).next > o


\* Box headers at which the walk of a level fails: a size below the header,
\* or one that reaches past the end bound.
C14_BoxFailures ==
    {"small", "huge", "ext_small", "ext_zero", "ext_max",
     "ext_wrap8", "ext_wrap0", "ext_wrapok"}

\* An MP4 file of a video and an audio trak, with such a header on the box
\* inp.bad.target, which for a box below trak is the one of the video trak.
C14_Mp4Case ==
    /\ inp.fam = "mp4"
    /\ inp.cut = -1
    /\ inp.top = <<"f", "v">>
    /\ inp.bad.variant \in C14_BoxFailures
    /\ \/ inp.tracks = <<VideoTrack, AudioTrack>> /\ inp.badat = 1
       \/ inp.tracks = <<AudioTrack, VideoTrack>> /\ inp.badat = 2

\* A Matroska file of a video and an audio track with a malformed size or
\* ID on the element inp.bad.target.
C14_MkvCase ==
    /\ inp.fam = "mkv"
    /\ inp.cut = -1
    /\ inp.bad.variant \in {"bad", "badid"}
    /\ inp.tracks = <<MkvVideo, MkvAudio>>

C14_Stream(k) ==
    CHOOSE st \in {Result.streams[i] : i \in 1..Len(Result.streams)} : st.kind = k

C14_Mp4VideoKept == inp.bad.target \in {"mdhd", "minf", "stbl", "stsd", "stts"}
C14_Mp4AudioKept ==
    \/ inp.bad.target \in TrakBoxNames \ {"trak"}
    \/ inp.bad.target = "trak" /\ inp.badat = 2

C14_Mp4Kinds ==
    IF inp.badat = 1
    THEN (IF C14_Mp4VideoKept THEN <<"video">> ELSE <<>>)
         \o (IF C14_Mp4AudioKept THEN <<"audio">> ELSE <<>>)
    ELSE (IF C14_Mp4AudioKept THEN <<"audio">> ELSE <<>>)
         \o (IF C14_Mp4VideoKept THEN <<"video">> ELSE <<>>)

C14_Mp4Expected ==
    /\ OutKinds = C14_Mp4Kinds
    /\ out # None =>
          /\ Result.format = B_isom
          /\ FracEq(Result.duration.of, <<3, 1>>)
    /\ C14_Mp4AudioKept =>
          /\ C14_Stream("audio").channels = {2}
          /\ C14_Stream("audio").sample_rate = {48000}
          /\ C14_Stream("audio").codec = to_ascii_lowercase(T_avc1)
    /\ C14_Mp4VideoKept =>
          LET v == C14_Stream("video")
              t == inp.bad.target
          IN  /\ v.width = IF t = "stts" THEN {320} ELSE {640}
              /\ v.height = IF t = "stts" THEN {240} ELSE {480}
              /\ v.codec = IF t = "stts" THEN to_ascii_lowercase(T_avc1) ELSE S_unknown
              /\ v.fps = None
              /\ v.language = IF t = "mdhd" THEN None ELSE {<<101, 110, 103>>}

C14_MkvNothing == inp.bad.target \in {"ebml", "segment", "info", "tracks", "entry", "type"}

C14_MkvExpected ==
    IF C14_MkvNothing THEN out = None
    ELSE
      LET t == inp.bad.target
          v == Result.streams[1]
          a == Result.streams[2]
      IN  /\ OutKinds = <<"video", "audio">>
          /\ duration_ticks = None <=> t \in {"scale", "duration"}
          /\ v.codec = IF t = "codec" THEN S_unknown ELSE S_h264
          /\ v.language = IF t = "codec" THEN None ELSE {L_eng}
          /\ v.is_default = IF t = "codec" THEN None ELSE {TRUE}
          /\ v.fps = None <=> t \in {"codec", "defdur"}
          /\ v.width = IF t \in {"codec", "defdur", "video", "width"} THEN None ELSE {1280}
          /\ v.height = IF t \in {"codec", "defdur", "video", "width", "height"}
                        THEN None ELSE {720}
          /\ a.codec = IF t = "codec" THEN S_unknown ELSE S_opus
          /\ a.is_forced = IF t \in {"codec", "forced"} THEN None ELSE {FALSE}
          /\ a.channels = IF t \in {"codec", "forced", "audio", "channels"}
                          THEN None ELSE {2}
          /\ a.sample_rate = None <=> t \in {"codec", "forced", "audio", "channels", "freq"}

\* C14: a level whose walk fails at one sibling stops there; what the
\* earlier siblings of the level and the levels above gave is in the final
\* result unchanged, the parent level goes on with its next sibling, and a
\* track already collected is still reported.
C14_LevelFailureIsLocal ==
    /\ (C14_Mp4Case \/ C14_MkvCase) => pc # "panic"
    /\ (Finished /\ C14_Mp4Case) => C14_Mp4Expected
    /\ (Finished /\ C14_MkvCase) => C14_MkvExpected


C15_Case ==
    /\ Finished
    /\ inp.fam = "mkv"
    /\ WellFormed
    /\ Len(inp.tracks) = 2
    /\ inp.tracks[1] \in {MkvWideFields, MkvEmptyCodec}

\* C15: a well-formed element of known size whose payload cannot be decoded
\* as its field (a width the field does not have, a declared size of 0
\* included) makes only that field absent: the siblings after it at the
\* level are scanned and give their fields.
C15_FieldFailureIsLocal ==
    C15_Case =>
        /\ OutKinds = <<"video", "audio">>
        /\ duration_ticks # None
        /\ timecode_scale = <<15, 66, 64>>
        /\ Result.streams[1].fps = None
        /\ Result.streams[1].height = {720}
        /\ inp.tracks[1] = MkvWideFields =>
              /\ Result.streams[1].codec = S_h264
              /\ Result.streams[1].width = None
        /\ inp.tracks[1] = MkvEmptyCodec =>
              /\ Result.streams[1].codec = S_unknown
              /\ Result.streams[1].language = {L_eng}
              /\ Result.streams[1].width = {1280}


\* A file of one trak that holds tkhd and mdia, and hdlr, mdhd and minf
\* inside mdia, in one of their orders.
C16_Case ==
    /\ Finished
    /\ inp.fam = "mp4"
    /\ WellFormed
    /\ inp.top = <<"f", "v">>
    /\ Len(inp.tracks) = 1
    /\ inp.tracks[1] \in OrderedTracks

\* The record of the trak, which depends on its handler only.
C16_Record(h) ==
    [kind |-> C5_TrackKind("mp4", [to |-> <<"M">>, mo |-> <<"h">>, h |-> h]),
     codec |-> {to_ascii_lowercase(T_avc1)},
     width |-> IF h = T_vide THEN {320} ELSE {640},
     height |-> IF h = T_vide THEN {240} ELSE {480},
     fps |-> IF h = T_vide THEN {<<1000, 40>>} ELSE None,
     sample_rate |-> IF h = T_soun THEN {320} ELSE None,
     channels |-> IF h = T_soun THEN {0} ELSE None,
     language |-> {<<101, 110, 103>>},
     duration |-> {<<5000, 1000>>}]

\* C16: the record built for a trak is the same for every order of hdlr,
\* mdhd and minf inside mdia and of tkhd and mdia inside trak: kind, codec,
\* width, height, frame rate, sample rate, channel count, language and
\* duration do not depend on the order in which the boxes are visited.
C16_OrderIndependent ==
    C16_Case =>
        IF inp.tracks[1].h = T_meta THEN tracks = <<>>
        ELSE tracks = <<C16_Record(inp.tracks[1].h)>>


C17_Field(k) == (raw \div k) % 32
C17_Fields == <<C17_Field(1024), C17_Field(32), C17_Field(1)>>

\* C17: decode_mp4_language returns the three bytes field + 0x60 of the
\* 5-bit fields at bits 14-10, 9-5 and 4-0 exactly when each field is in
\* 1..26, and absence otherwise; bit 15 has no effect and no byte overflows.
C17_DecodeLanguage ==
    pc = "decoded" =>
        /\ decoded = IF \A i \in 1..3 : C17_Fields[i] \in 1..26
                     THEN {[i \in 1..3 |-> C17_Fields[i] + 96]}
                     ELSE None
        /\ \A s \in decoded : \A i \in 1..3 : s[i] \in 97..122
        /\ decoded = decode_mp4_language(<<(raw % 32768) \div 256, raw % 256>>)

\* The code of "eng" with bit 15 set.
C17_Witness ==
    /\ pc = "decoded"
    /\ raw = 32768 + 5575
    /\ decoded = {<<101, 110, 103>>}

====
